---- MODULE Spec2Model ----
(***************************************************************************)
(* Translation evaluation pipeline of pre-workday-poc:                     *)
(*   src/src/evaluate_translation.py  (extractor, similarity scorer, case  *)
(*                                     runner, aggregator, gate)           *)
(*   src/evaluate_translation.py      (older copy: exact-match aggregator) *)
(*                                                                         *)
(* A Python str is a sequence of one-character strings.  A Python float    *)
(* is an IEEE 754 double [m, e], every operation rounded as the hardware   *)
(* rounds it.  A Python dict is a record; a missing key is a field that is *)
(* not in the record's DOMAIN.                                             *)
(***************************************************************************)
EXTENDS Integers, Sequences, FiniteSets, TLC

VARIABLES
    pc,                 \* position of the program / which pure function is applied
    variant,            \* "src" = src/src/evaluate_translation.py, "root" = src/evaluate_translation.py
    dotenv,             \* the value the .env file gives OPENAI_API_KEY: "absent"
                        \* (no file, or no such line), "" or a key
    api_key,            \* os.getenv("OPENAI_API_KEY"): "absent", "" or a key
    dataset,            \* DATASET: sequence of [input, reference]
    i,                  \* loop index of enumerate(DATASET)
    evaluation_results, \* the list evaluate_translations accumulates
    calls,              \* history: the calls made to the collaborators (and a failed
                        \* extraction), in order, each with its outcome
    eval_outcome,       \* evaluate_translations: "running", "returned", "raised", "not_called"
    bleu_score,         \* main's bleu_score once computed (else NoScore)
    stdout,             \* lines main has printed (tag records)
    exit_code,          \* sys.exit status, -1 while running
    prediction,         \* argument of calculate_similarity_score
    reference,          \* argument of calculate_similarity_score
    sim_score,          \* its return value
    bleu_arg,           \* argument of calculate_bleu_score
    bleu_ret,           \* its return value in both copies: [src, root]
    char_fault,         \* an exception is raised inside the character-level step
    ext_arg,            \* argument of extract_translation_from_response
    extracted,          \* its return value
    rule,               \* number of the pattern that produced it (0: none)
    gloss,              \* agent.py's GLOSS: list of [key, value] pairs, in file order
    agent_op            \* the last call of translate_tool / create_langchain_agent:
                        \* its argument, the calls it made, its outcome

vars == <<pc, variant, dotenv, api_key, dataset, i, evaluation_results, calls,
          eval_outcome, bleu_score, stdout, exit_code,
          prediction, reference, sim_score, bleu_arg, bleu_ret,
          char_fault, ext_arg, extracted, rule, gloss, agent_op>>

-----------------------------------------------------------------------------
(* Bounds of the model *)

MaxLen == 3         \* longest generated prediction / reference string
MaxResults == 4     \* longest generated result list given to calculate_bleu_score
MaxCases == 2       \* longest generated dataset
MaxFrags == 3       \* most fragments a generated agent response is made of
MaxWords == 4       \* most words a generated reference is made of

-----------------------------------------------------------------------------
(* Python floats: IEEE 754 binary64 with round-to-nearest-even.  A positive  *)
(* float is [m, e], its value m * 2^e, where m is an integer of exactly 53   *)
(* bits held as a list of 15-bit limbs, least significant first; 0.0 is      *)
(* [m |-> <<>>, e |-> 0].  The scores are never negative, and the exponents  *)
(* that occur are far from the subnormal and the overflow range.             *)

LimbBase == 32768

\* a limb list without its leading zero limbs
RECURSIVE BigTrim(_)
BigTrim(x) ==
    IF x # <<>> /\ x[Len(x)] = 0 THEN BigTrim(SubSeq(x, 1, Len(x) - 1)) ELSE x

\* x * k + c, for 1 <= k <= LimbBase and 0 <= c < LimbBase
RECURSIVE BigMulSmall(_, _, _)
BigMulSmall(x, k, c) ==
    IF x = <<>>
    THEN IF c = 0 THEN <<>> ELSE <<c>>
    ELSE LET t == Head(x) * k + c
         IN  <<t % LimbBase>> \o BigMulSmall(Tail(x), k, t \div LimbBase)

\* x + y + c
RECURSIVE BigAdd(_, _, _)
BigAdd(x, y, c) ==
    IF x = <<>> /\ y = <<>>
    THEN IF c = 0 THEN <<>> ELSE <<c>>
    ELSE LET t == (IF x = <<>> THEN 0 ELSE Head(x))
                    + (IF y = <<>> THEN 0 ELSE Head(y)) + c
         IN  <<t % LimbBase>>
                \o BigAdd(IF x = <<>> THEN <<>> ELSE Tail(x),
                          IF y = <<>> THEN <<>> ELSE Tail(y), t \div LimbBase)

\* x * y
RECURSIVE BigMul(_, _)
BigMul(x, y) ==
    IF y = <<>> THEN <<>>
    ELSE BigTrim(BigAdd(IF Head(y) = 0 THEN <<>> ELSE BigMulSmall(x, Head(y), 0),
                        IF Tail(y) = <<>> THEN <<>> ELSE <<0>> \o BigMul(x, Tail(y)),
                        0))

\* quotient q and remainder r of (r0 * LimbBase^Len(x) + x) by k, for
\* 1 <= k <= LimbBase and r0 < k: long division from the top limb down
RECURSIVE BigDivSmall(_, _, _)
BigDivSmall(x, k, r0) ==
    IF x = <<>> THEN [q |-> <<>>, r |-> r0]
    ELSE LET t == r0 * LimbBase + x[Len(x)]
             rest == BigDivSmall(SubSeq(x, 1, Len(x) - 1), k, t % k)
         IN  [q |-> Append(rest.q, t \div k), r |-> rest.r]

\* x * 2^s
BigShl(x, s) ==
    IF x = <<>> THEN <<>>
    ELSE [k \in 1..(s \div 15) |-> 0] \o BigMulSmall(x, 2^(s % 15), 0)

\* x \div 2^s, and whether a 1 bit was shifted out
BigShr(x, s) ==
    LET drop == IF s \div 15 < Len(x) THEN s \div 15 ELSE Len(x)
        d == BigDivSmall(SubSeq(x, drop + 1, Len(x)), 2^(s % 15), 0)
    IN  [q |-> BigTrim(d.q),
         sticky |-> d.r # 0 \/ \E k \in 1..drop : x[k] # 0]

\* the number of bits of a limb
RECURSIVE BitLen(_)
BitLen(n) == IF n = 0 THEN 0 ELSE 1 + BitLen(n \div 2)

\* the number of bits of x
BigBits(x) == IF x = <<>> THEN 0 ELSE 15 * (Len(x) - 1) + BitLen(x[Len(x)])

Zero == [m |-> <<>>, e |-> 0]

\* the float nearest to (M + f) * 2^e, where 0 < f < 1 if sticky and f = 0
\* otherwise (M has at least 55 bits when sticky); a tie goes to the even
\* mantissa
FlRound(M, e, sticky) ==
    LET n == BigBits(M)
    IN  IF n = 0 THEN Zero
        ELSE IF n <= 53 THEN [m |-> BigShl(M, 53 - n), e |-> e - (53 - n)]
        ELSE LET s == BigShr(M, n - 54)
                 kept == BigShr(s.q, 1).q
                 up == /\ s.q[1] % 2 = 1
                       /\ (sticky \/ s.sticky \/ kept[1] % 2 = 1)
                 r == IF up THEN BigAdd(kept, <<1>>, 0) ELSE kept
             IN  IF BigBits(r) = 54
                 THEN [m |-> BigShr(r, 1).q, e |-> e + (n - 53) + 1]
                 ELSE [m |-> r, e |-> e + (n - 53)]

\* n / d for ints 0 <= n < LimbBase, 1 <= d <= LimbBase: Python's true
\* division, and the float a decimal literal such as 0.8 = Fl(4, 5) denotes
FlQuotient(n, d) ==
    IF n = 0 THEN Zero
    ELSE LET dv == BigDivSmall(BigShl(<<n>>, 75), d, 0)
         IN  FlRound(BigTrim(dv.q), -75, dv.r # 0)

\* the quotients of small ints, computed once
SmallQuotients == [n \in 0..100 |-> [d \in 1..10 |-> FlQuotient(n, d)]]

Fl(n, d) ==
    IF n <= 100 /\ d <= 10 THEN SmallQuotients[n][d] ELSE FlQuotient(n, d)

\* a < b
FlLt(a, b) ==
    IF b.m = <<>> THEN FALSE
    ELSE IF a.m = <<>> THEN TRUE
    ELSE \/ a.e < b.e
         \/ /\ a.e = b.e
            /\ \E k \in DOMAIN a.m :
                /\ a.m[k] < b.m[k]
                /\ \A j \in DOMAIN a.m : j > k => a.m[j] = b.m[j]

\* a >= b
FlGeq(a, b) == ~FlLt(a, b)

\* a + b
FlAdd(a, b) ==
    IF a.m = <<>> THEN b
    ELSE IF b.m = <<>> THEN a
    ELSE LET lo == IF a.e < b.e THEN a.e ELSE b.e
         IN  FlRound(BigAdd(BigShl(a.m, a.e - lo), BigShl(b.m, b.e - lo), 0),
                     lo, FALSE)

\* a * b
FlMul(a, b) ==
    IF a.m = <<>> \/ b.m = <<>> THEN Zero
    ELSE FlRound(BigMul(a.m, b.m), a.e + b.e, FALSE)

\* a / n for an int 1 <= n <= LimbBase
FlDivInt(a, n) ==
    IF a.m = <<>> THEN Zero
    ELSE LET dv == BigDivSmall(BigShl(a.m, 30), n, 0)
         IN  FlRound(BigTrim(dv.q), a.e - 30, dv.r # 0)

\* Python max(a, b): the first argument unless the second is greater
PyMax(a, b) == IF FlLt(a, b) THEN b ELSE a

One  == Fl(1, 1)
NoScore == [m |-> <<>>, e |-> -1]  \* "not computed yet"

\* in place of a value: the evaluation ended with an exception
Propagated == [m |-> <<>>, e |-> -2]

\* Python's n / d on ints: ZeroDivisionError when d is 0
PyDiv(n, d) == IF d = 0 THEN Propagated ELSE Fl(n, d)

-----------------------------------------------------------------------------
(* Python str helpers: lower(), strip(), split(), isalnum() *)

\* The characters of the model are the code points U+0000..U+00FF (Basic
\* Latin, Latin-1 Supplement), U+0130, U+0131, U+017F and the Unicode white
\* space.
\* A character that cannot be written in a string of the model is written as
\* its Python escape ("\\x0b" is the one character U+000B).

\* str.lower() of the cased characters whose lower case is one character
LowerOf ==
    ("A" :> "a") @@ ("B" :> "b") @@ ("C" :> "c") @@ ("D" :> "d") @@
    ("E" :> "e") @@ ("F" :> "f") @@ ("G" :> "g") @@ ("H" :> "h") @@
    ("I" :> "i") @@ ("J" :> "j") @@ ("K" :> "k") @@ ("L" :> "l") @@
    ("M" :> "m") @@ ("N" :> "n") @@ ("O" :> "o") @@ ("P" :> "p") @@
    ("Q" :> "q") @@ ("R" :> "r") @@ ("S" :> "s") @@ ("T" :> "t") @@
    ("U" :> "u") @@ ("V" :> "v") @@ ("W" :> "w") @@ ("X" :> "x") @@
    ("Y" :> "y") @@ ("Z" :> "z") @@ ("À" :> "à") @@ ("Á" :> "á") @@
    ("Â" :> "â") @@ ("Ã" :> "ã") @@ ("Ä" :> "ä") @@ ("Å" :> "å") @@
    ("Æ" :> "æ") @@ ("Ç" :> "ç") @@ ("È" :> "è") @@ ("É" :> "é") @@
    ("Ê" :> "ê") @@ ("Ë" :> "ë") @@ ("Ì" :> "ì") @@ ("Í" :> "í") @@
    ("Î" :> "î") @@ ("Ï" :> "ï") @@ ("Ð" :> "ð") @@ ("Ñ" :> "ñ") @@
    ("Ò" :> "ò") @@ ("Ó" :> "ó") @@ ("Ô" :> "ô") @@ ("Õ" :> "õ") @@
    ("Ö" :> "ö") @@ ("Ø" :> "ø") @@ ("Ù" :> "ù") @@ ("Ú" :> "ú") @@
    ("Û" :> "û") @@ ("Ü" :> "ü") @@ ("Ý" :> "ý") @@ ("Þ" :> "þ")

\* the characters for which str.isalnum() is True
AlnumChars ==
    {"0", "1", "2", "3", "4", "5", "6", "7", "8", "9", "A", "B", "C", "D",
     "E", "F", "G", "H", "I", "J", "K", "L", "M", "N", "O", "P", "Q", "R",
     "S", "T", "U", "V", "W", "X", "Y", "Z", "a", "b", "c", "d", "e", "f",
     "g", "h", "i", "j", "k", "l", "m", "n", "o", "p", "q", "r", "s", "t",
     "u", "v", "w", "x", "y", "z", "ª", "²", "³", "µ", "¹", "º", "¼", "½",
     "¾", "À", "Á", "Â", "Ã", "Ä", "Å", "Æ", "Ç", "È", "É", "Ê", "Ë", "Ì",
     "Í", "Î", "Ï", "Ð", "Ñ", "Ò", "Ó", "Ô", "Õ", "Ö", "Ø", "Ù", "Ú", "Û",
     "Ü", "Ý", "Þ", "ß", "à", "á", "â", "ã", "ä", "å", "æ", "ç", "è", "é",
     "ê", "ë", "ì", "í", "î", "ï", "ð", "ñ", "ò", "ó", "ô", "õ", "ö", "ø",
     "ù", "ú", "û", "ü", "ý", "þ", "ÿ", "\\u0130", "\\u0131", "\\u017f"}

\* the characters for which str.isspace() is True: those that str.strip()
\* and str.split() remove and that \s matches
SpaceChars ==
    {"\t", "\n", "\\x0b", "\f", "\r", "\\x1c", "\\x1d", "\\x1e", "\\x1f",
     " ", "\\x85", "\\xa0", "\\u1680", "\\u2000", "\\u2001", "\\u2002",
     "\\u2003", "\\u2004", "\\u2005", "\\u2006", "\\u2007", "\\u2008",
     "\\u2009", "\\u200a", "\\u2028", "\\u2029", "\\u202f", "\\u205f",
     "\\u3000"}

\* the characters that str.encode('ascii') accepts
AsciiChars ==
    {"\\x00", "\\x01", "\\x02", "\\x03", "\\x04", "\\x05", "\\x06",
     "\\x07", "\\x08", "\t", "\n", "\\x0b", "\f", "\r", "\\x0e", "\\x0f",
     "\\x10", "\\x11", "\\x12", "\\x13", "\\x14", "\\x15", "\\x16",
     "\\x17", "\\x18", "\\x19", "\\x1a", "\\x1b", "\\x1c", "\\x1d",
     "\\x1e", "\\x1f", " ", "!", "\"", "#", "$", "%", "&", "'", "(", ")",
     "*", "+", ",", "-", ".", "/", "0", "1", "2", "3", "4", "5", "6", "7",
     "8", "9", ":", ";", "<", "=", ">", "?", "@", "A", "B", "C", "D", "E",
     "F", "G", "H", "I", "J", "K", "L", "M", "N", "O", "P", "Q", "R", "S",
     "T", "U", "V", "W", "X", "Y", "Z", "[", "\\", "]", "^", "_", "\\x60", "a",
     "b", "c", "d", "e", "f", "g", "h", "i", "j", "k", "l", "m", "n", "o",
     "p", "q", "r", "s", "t", "u", "v", "w", "x", "y", "z", "{", "|", "}",
     "~", "\\x7f"}

Range(s) == {s[k] : k \in DOMAIN s}

\* str.isspace() for one character
IsSpace(c) == c \in SpaceChars

\* str.isalnum() for one character
IsAlnum(c) == c \in AlnumChars

\* str.lower() for one character other than U+0130
LowerChar(c) == IF c \in DOMAIN LowerOf THEN LowerOf[c] ELSE c

\* str.lower(); U+0130 becomes the two characters "i" U+0307
RECURSIVE Lower(_)
Lower(s) ==
    IF s = <<>> THEN <<>>
    ELSE (IF Head(s) = "\\u0130" THEN <<"i", "\\u0307">> ELSE <<LowerChar(Head(s))>>)
            \o Lower(Tail(s))

\* str.strip(): drop leading and trailing whitespace
RECURSIVE LStrip(_)
LStrip(s) == IF s # <<>> /\ IsSpace(Head(s)) THEN LStrip(Tail(s)) ELSE s

RECURSIVE RStrip(_)
RStrip(s) ==
    IF s # <<>> /\ IsSpace(s[Len(s)]) THEN RStrip(SubSeq(s, 1, Len(s) - 1)) ELSE s

Strip(s) == RStrip(LStrip(s))

\* str.split(): the maximal runs of non-whitespace characters, in order
RECURSIVE SplitFrom(_, _, _)
SplitFrom(s, k, cur) ==
    IF k > Len(s)
    THEN IF cur = <<>> THEN <<>> ELSE <<cur>>
    ELSE IF IsSpace(s[k])
         THEN IF cur = <<>>
              THEN SplitFrom(s, k + 1, <<>>)
              ELSE <<cur>> \o SplitFrom(s, k + 1, <<>>)
         ELSE SplitFrom(s, k + 1, Append(cur, s[k]))

Split(s) == SplitFrom(s, 1, <<>>)

-----------------------------------------------------------------------------
(* calculate_similarity_score, src/src/evaluate_translation.py:81-132 *)

\* the 0.8 weight of a character-only match, line 127
CharWeight == Fl(4, 5)

\* mutant: the cut-off is taken for the weight 0.8 of line 127
CutoffIsCharWeight == Fl(4, 5)

\* the word-overlap cut-off 0.7, line 115
WordCutoff == Fl(7, 10)

\* lines 104-112: word overlap over the sets of tokens
WordScore(pred_normalized, ref_normalized) ==
    LET pred_words == Range(Split(pred_normalized))
        ref_words  == Range(Split(ref_normalized))
    IN  PyDiv(Cardinality(pred_words \cap ref_words), Cardinality(ref_words))

\* lines 121-126: character overlap over the sets of alphanumeric characters
CharScore(pred_normalized, ref_normalized) ==
    LET pred_chars == {c \in Range(pred_normalized) : IsAlnum(c)}
        ref_chars  == {c \in Range(ref_normalized) : IsAlnum(c)}
    IN  PyDiv(Cardinality(pred_chars \cap ref_chars), Cardinality(ref_chars))

\* mutant: the emptiness check of line 92 is missing
SimNoEmptyCheck(p, r) ==
    LET pred_normalized == Strip(Lower(p))
        ref_normalized  == Strip(Lower(r))
    IN  IF pred_normalized = ref_normalized THEN One
        ELSE IF Range(Split(ref_normalized)) = {} THEN Zero
        ELSE LET word_score == WordScore(pred_normalized, ref_normalized)
             IN  IF FlGeq(word_score, WordCutoff) THEN word_score
                 ELSE IF {c \in Range(ref_normalized) : IsAlnum(c)} # {}
                      THEN PyMax(word_score,
                                 FlMul(CharScore(pred_normalized, ref_normalized),
                                        CharWeight))
                      ELSE word_score

\* mutant: the prediction's tokens are counted as a list, duplicates included
SimTokenList(p, r) ==
    IF p = <<>> \/ r = <<>> THEN Zero
    ELSE LET pn == Strip(Lower(p))
             rn == Strip(Lower(r))
             pl == Split(pn)
             rw == Range(Split(rn))
         IN  IF pn = rn THEN One
             ELSE IF rw = {} THEN Zero
             ELSE Fl(Cardinality({k \in DOMAIN pl : pl[k] \in rw}), Cardinality(rw))

\* mutant: exact match compares the raw strings, not the normalized ones
SimRawCompare(p, r) ==
    IF p = <<>> \/ r = <<>> THEN Zero
    ELSE IF p = r THEN One
    ELSE LET pn == Strip(Lower(p))
             rn == Strip(Lower(r))
         IN  IF Range(Split(rn)) = {} THEN Zero
             ELSE LET word_score == WordScore(pn, rn)
                  IN  IF FlGeq(word_score, WordCutoff) THEN word_score
                      ELSE IF {c \in Range(rn) : IsAlnum(c)} # {}
                           THEN PyMax(word_score, FlMul(CharScore(pn, rn), CharWeight))
                           ELSE word_score

\* mutant: the guard of line 107 is missing, the division of line 111 is reached
\* with an empty set of reference words
SimNoRefWordsGuard(p, r, char_step_raises) ==
    IF p = <<>> \/ r = <<>> THEN Zero
    ELSE LET pn == Strip(Lower(p))
             rn == Strip(Lower(r))
         IN  IF pn = rn THEN One
             ELSE LET word_score == WordScore(pn, rn)
                  IN  IF word_score = Propagated THEN Propagated
                      ELSE IF FlGeq(word_score, WordCutoff) THEN word_score
                      ELSE IF char_step_raises THEN word_score
                      ELSE IF {c \in Range(rn) : IsAlnum(c)} # {}
                           THEN PyMax(word_score, FlMul(CharScore(pn, rn), CharWeight))
                           ELSE word_score

\* mutant: the character score is not reduced by the weight of line 127
SimCharUnweighted(p, r) ==
    IF p = <<>> \/ r = <<>> THEN Zero
    ELSE LET pn == Strip(Lower(p))
             rn == Strip(Lower(r))
         IN  IF pn = rn THEN One
             ELSE IF Range(Split(rn)) = {} THEN Zero
             ELSE LET word_score == WordScore(pn, rn)
                  IN  IF FlGeq(word_score, WordCutoff) THEN word_score
                      ELSE IF {c \in Range(rn) : IsAlnum(c)} # {}
                           THEN PyMax(word_score, CharScore(pn, rn))
                           ELSE word_score

\* mutant: the word overlap is taken over the union of both token sets
SimJaccard(p, r) ==
    IF p = <<>> \/ r = <<>> THEN Zero
    ELSE LET pn == Strip(Lower(p))
             rn == Strip(Lower(r))
             pw == Range(Split(pn))
             rw == Range(Split(rn))
         IN  IF pn = rn THEN One
             ELSE IF rw = {} THEN Zero
             ELSE LET word_score == Fl(Cardinality(pw \cap rw), Cardinality(pw \cup rw))
                  IN  IF FlGeq(word_score, WordCutoff) THEN word_score
                      ELSE IF {c \in Range(rn) : IsAlnum(c)} # {}
                           THEN PyMax(word_score, FlMul(CharScore(pn, rn), CharWeight))
                           ELSE word_score

\* the function with its exception paths: an exception before the try block
\* of line 119 propagates, one inside it (char_step_raises: raised by anything
\* in lines 120-127) is caught at line 129
SimilarityWithFault(p, r, char_step_raises) ==
    IF p = <<>> \/ r = <<>>                                 \* line 92
    THEN Zero
    ELSE LET pred_normalized == Strip(Lower(p))              \* line 96
             ref_normalized  == Strip(Lower(r))              \* line 97
         IN  IF pred_normalized = ref_normalized             \* line 100
             THEN One
             ELSE IF Range(Split(ref_normalized)) = {}      \* line 107
             THEN Zero
             ELSE LET word_score == WordScore(pred_normalized, ref_normalized)
                  IN  IF word_score = Propagated            \* lines 111-112
                      THEN Propagated
                      ELSE IF FlGeq(word_score, WordCutoff)     \* line 115
                      THEN word_score
                      ELSE IF char_step_raises              \* lines 129-132
                      THEN word_score
                      ELSE IF {c \in Range(ref_normalized) : IsAlnum(c)} # {}  \* line 124
                           THEN LET char_score == CharScore(pred_normalized, ref_normalized)
                                IN  IF char_score = Propagated   \* lines 129-132
                                    THEN word_score
                                    ELSE PyMax(word_score,
                                               FlMul(char_score, CharWeight))  \* line 127
                           ELSE word_score                   \* line 132

\* nothing in lines 120-127 raises for str arguments
calculate_similarity_score(p, r) == SimilarityWithFault(p, r, FALSE)

-----------------------------------------------------------------------------
(* extract_translation_from_response, src/src/evaluate_translation.py:36-78 *)

NoMatch == [ok |-> FALSE, text |-> <<>>]

IsQuote(c) == c \in {"\"", "'"}

\* the least element of a non-empty set of integers
Min(S) == CHOOSE x \in S : \A y \in S : x <= y
Max(S) == CHOOSE x \in S : \A y \in S : x >= y

\* the literal lit (lower-case letters of "translation" and "is") occurs in s
\* at position k, ignoring case (re.IGNORECASE): a letter matches itself, its
\* upper case and the characters that fold to it, U+0130 and U+0131 for "i",
\* U+017F for "s"
LitAt(s, k, lit) ==
    /\ k >= 1
    /\ k + Len(lit) - 1 <= Len(s)
    /\ \A n \in 1..Len(lit) :
        \/ LowerChar(s[k + n - 1]) = lit[n]
        \/ lit[n] = "i" /\ s[k + n - 1] \in {"\\u0130", "\\u0131"}
        \/ lit[n] = "s" /\ s[k + n - 1] = "\\u017f"

\* ["\']([^"\']+)["\'] matched with its opening quote at position j:
\* the capture runs to the next quote and must not be empty
QuotedAt(s, j) ==
    IF j < 1 \/ j > Len(s) \/ ~IsQuote(s[j]) THEN NoMatch
    ELSE LET closing == {m \in (j + 1)..Len(s) : IsQuote(s[m])}
         IN  IF closing = {} \/ Min(closing) = j + 1 THEN NoMatch
             ELSE [ok |-> TRUE, text |-> SubSeq(s, j + 1, Min(closing) - 1)]

\* \s*["\']([^"\']+)["\'] matched from position k
QuotedAfterSpaces(s, k) ==
    LET nonspace == {j \in k..Len(s) : ~IsSpace(s[j])}
    IN  IF k < 1 \/ nonspace = {} THEN NoMatch ELSE QuotedAt(s, Min(nonspace))

L_is == <<"i", "s">>
L_translation == <<"t","r","a","n","s","l","a","t","i","o","n">>

\* mutant: pattern 1 is applied with re.match, at the start of the response only
Pattern1AtStart(s) ==
    LET ends == {q \in (1 + Len(L_translation))..Len(s) :
                   /\ \A n \in (1 + Len(L_translation))..(q - 1) : s[n] # "\n"
                   /\ LitAt(s, q, L_is)
                   /\ QuotedAfterSpaces(s, q + 2).ok}
    IN  IF ~LitAt(s, 1, L_translation) \/ ends = {} THEN NoMatch
        ELSE QuotedAfterSpaces(s, Max(ends) + 2)

\* pattern 1, line 56: translation.*is\s*["\']([^"\']+)["\']
\* re.search takes the leftmost start; .* is greedy and does not cross "\n"
Pattern1(s) ==
    LET ends(p) == {q \in (p + Len(L_translation))..Len(s) :
                      /\ \A n \in (p + Len(L_translation))..(q - 1) : s[n] # "\n"
                      /\ LitAt(s, q, L_is)
                      /\ QuotedAfterSpaces(s, q + 2).ok}
        starts == {p \in 1..Len(s) : LitAt(s, p, L_translation) /\ ends(p) # {}}
    IN  IF starts = {} THEN NoMatch
        ELSE QuotedAfterSpaces(s, Max(ends(Min(starts))) + 2)

\* pattern 2, line 57: is\s*["\']([^"\']+)["\']
Pattern2(s) ==
    LET starts == {p \in 1..Len(s) : LitAt(s, p, L_is) /\ QuotedAfterSpaces(s, p + 2).ok}
    IN  IF starts = {} THEN NoMatch ELSE QuotedAfterSpaces(s, Min(starts) + 2)

\* pattern 3, line 58: ["\']([^"\']+)["\']
Pattern3(s) ==
    LET starts == {p \in 1..Len(s) : QuotedAt(s, p).ok}
    IN  IF starts = {} THEN NoMatch ELSE QuotedAt(s, Min(starts))

\* str.startswith(prefix)
StartsWith(s, prefix) ==
    /\ Len(prefix) <= Len(s)
    /\ SubSeq(s, 1, Len(prefix)) = prefix

P_Translation == <<"T","r","a","n","s","l","a","t","i","o","n",":">>
P_Result == <<"R","e","s","u","l","t",":">>
P_Output == <<"O","u","t","p","u","t",":">>

\* lines 74-75: one round of the prefix loop
StripPrefix(result, prefix) ==
    IF StartsWith(result, prefix)
    THEN Strip(SubSeq(result, Len(prefix) + 1, Len(result)))
    ELSE result

\* mutant: the patterns are tried from the least specific to the most specific
ExtractGenericFirst(response) ==
    IF response = <<>> THEN <<>>
    ELSE IF Pattern3(response).ok THEN Strip(Pattern3(response).text)
    ELSE IF Pattern2(response).ok THEN Strip(Pattern2(response).text)
    ELSE IF Pattern1(response).ok THEN Strip(Pattern1(response).text)
    ELSE StripPrefix(StripPrefix(StripPrefix(Strip(response),
                P_Translation), P_Result), P_Output)

\* mutant: the prefix loop stops after the first prefix it removes
ExtractOnePrefixOnly(response) ==
    IF response = <<>> THEN <<>>
    ELSE IF Pattern1(response).ok THEN Strip(Pattern1(response).text)
    ELSE IF Pattern2(response).ok THEN Strip(Pattern2(response).text)
    ELSE IF Pattern3(response).ok THEN Strip(Pattern3(response).text)
    ELSE LET result == Strip(response)
         IN  IF StartsWith(result, P_Translation) THEN StripPrefix(result, P_Translation)
             ELSE IF StartsWith(result, P_Result) THEN StripPrefix(result, P_Result)
             ELSE StripPrefix(result, P_Output)

\* the number of the pattern that produces the result (0: none matched)
WinningRule(response) ==
    IF response = <<>> THEN 0
    ELSE IF Pattern1(response).ok THEN 1
    ELSE IF Pattern2(response).ok THEN 2
    ELSE IF Pattern3(response).ok THEN 3
    ELSE 0

extract_translation_from_response(response) ==
    IF response = <<>> THEN <<>>                                     \* lines 51-52
    ELSE IF Pattern1(response).ok THEN Strip(Pattern1(response).text)  \* lines 62-67
    ELSE IF Pattern2(response).ok THEN Strip(Pattern2(response).text)
    ELSE IF Pattern3(response).ok THEN Strip(Pattern3(response).text)
    ELSE StripPrefix(StripPrefix(StripPrefix(Strip(response),        \* lines 70-78
                P_Translation), P_Result), P_Output)

-----------------------------------------------------------------------------
(* Python values: None and list; dict.get *)

PyNone == [type |-> "NoneType"]
PyList(xs) == [type |-> "list", items |-> xs]

\* truth value of None or a list ("if not evaluation_results")
Truthy(v) == v.type = "list" /\ Len(v.items) > 0

\* dict.get(key, default)
Get(d, key, default) == IF key \in DOMAIN d THEN d[key] ELSE default

-----------------------------------------------------------------------------
(* calculate_bleu_score, src/src/evaluate_translation.py:135-182 *)

\* A list item that is not a dict (None, an int) carries a type tag. A dict
\* value of another type than the code expects is held under a key that names
\* the type: prediction_int for an int under 'prediction', score_str for a str
\* under 'score'.
IsMapping(item) == "type" \notin DOMAIN item

\* lines 162-170 raise for this item: AttributeError from .get on a non-dict
\* (line 162), AttributeError from .lower() on a non-str prediction that passed
\* the truth tests of line 92 (via line 167), TypeError from max() of a str and
\* a float (line 170)
ResultRaises(item) ==
    \/ ~IsMapping(item)
    \/ /\ "prediction_int" \in DOMAIN item
       /\ item.prediction_int # 0
       /\ Get(item, "reference", <<>>) # <<>>
    \/ "score_str" \in DOMAIN item

\* the loop of lines 161-171 ends with an exception
BleuLoopRaises(results) == \E k \in DOMAIN results : ResultRaises(results[k])

\* lines 162-170: the score one result contributes
FinalScore(result) ==
    LET pred == Get(result, "prediction", <<>>)
        ref  == Get(result, "reference", <<>>)
        exact_score == Fl(Get(result, "score", 0), 1)
        similarity_score == calculate_similarity_score(pred, ref)
    IN  PyMax(exact_score, similarity_score)

\* lines 161-171: the loop, left to right, accumulating total_score
RECURSIVE BleuLoop(_, _, _)
BleuLoop(results, k, total_score) ==
    IF k > Len(results) THEN total_score
    ELSE BleuLoop(results, k + 1, FlAdd(total_score, FinalScore(results[k])))

\* mutant: the handler keeps what was summed before the exception
RECURSIVE PartialLoop(_, _, _)
PartialLoop(results, k, total_score) ==
    IF k > Len(results) \/ ResultRaises(results[k]) THEN total_score
    ELSE PartialLoop(results, k + 1, FlAdd(total_score, FinalScore(results[k])))

BleuKeepsPartialSum(v) ==
    IF ~Truthy(v) THEN Zero
    ELSE FlMul(FlDivInt(PartialLoop(v.items, 1, Zero), Len(v.items)), Fl(100, 1))

\* mutant: the exact-match score is ignored, only the similarity counts
RECURSIVE SimilaritySum(_, _)
SimilaritySum(results, k) ==
    IF k > Len(results) THEN Zero
    ELSE FlAdd(calculate_similarity_score(Get(results[k], "prediction", <<>>),
                                           Get(results[k], "reference", <<>>)),
                SimilaritySum(results, k + 1))

BleuSimilarityOnly(v) ==
    IF ~Truthy(v) THEN Zero
    ELSE IF BleuLoopRaises(v.items) THEN Zero
    ELSE FlMul(FlDivInt(SimilaritySum(v.items, 1), Len(v.items)), Fl(100, 1))

\* mutant: the similarity score is ignored (the aggregator of the older copy)
BleuExactOnly(v) ==
    IF ~Truthy(v) THEN Zero
    ELSE LET n == Cardinality({k \in DOMAIN v.items : Get(v.items[k], "score", 0) = 1})
         IN  FlMul(Fl(n, Len(v.items)), Fl(100, 1))

\* mutant: an empty or absent result set is an error value, not 0.0
BleuEmptyIsError(v) ==
    IF ~Truthy(v) THEN NoScore
    ELSE FlMul(FlDivInt(BleuLoop(v.items, 1, Zero), Len(v.items)), Fl(100, 1))

calculate_bleu_score(v) ==
    IF ~Truthy(v)                                              \* line 150
    THEN Zero
    ELSE IF BleuLoopRaises(v.items)                            \* lines 180-182
    THEN Zero
    ELSE LET total_score == BleuLoop(v.items, 1, Zero)
             total_evaluations == Len(v.items)                 \* line 156
         IN  FlMul(FlDivInt(total_score, total_evaluations), Fl(100, 1))  \* line 175

(* calculate_bleu_score, src/evaluate_translation.py:30-64 *)

calculate_bleu_score_root(v) ==
    IF ~Truthy(v)                                              \* line 45
    THEN Zero
    ELSE IF \E k \in DOMAIN v.items : ~IsMapping(v.items[k])   \* lines 51, 62-64
    THEN Zero
    ELSE LET exact_matches ==                                  \* line 51
               Cardinality({k \in DOMAIN v.items : Get(v.items[k], "score", 0) = 1})
             total_evaluations == Len(v.items)
         IN  FlMul(Fl(exact_matches, total_evaluations), Fl(100, 1))  \* line 57

-----------------------------------------------------------------------------
(* DATASET, src/src/evaluate_translation.py:30-33, and the collaborators *)

S_spanish_input == <<"S","p","a","n","i","s","h"," ","|"," ","c","l","o","u","d"," ","p","a","y","r","o","l","l">>
S_nube_nomina == <<"n","u","b","e"," ","n","ó","m","i","n","a">>
S_german_input == <<"G","e","r","m","a","n"," ","|"," ","W","o","r","k","d","a","y"," ","p","a","y","r","o","l","l">>
S_workday_lohn == <<"W","o","r","k","d","a","y"," ","L","o","h","n","a","b","r","e","c","h","n","u","n","g">>
S_the_translation_is == <<"T","h","e"," ","t","r","a","n","s","l","a","t","i","o","n"," ","i","s"," ","'","n","u","b","e"," ","n","ó","m","i","n","a","'",".">>
S_incorrect_translation == <<"i","n","c","o","r","r","e","c","t"," ","t","r","a","n","s","l","a","t","i","o","n">>

DATASET ==
    << [input |-> S_spanish_input, reference |-> S_nube_nomina],
       [input |-> S_german_input,  reference |-> S_workday_lohn] >>

\* DATASET of the older copy, src/evaluate_translation.py:24-27: the accented
\* letter of the first reference is stored as the two characters U+00C3 U+00B3
DATASET_root ==
    << [input |-> S_spanish_input,
        reference |-> <<"n","u","b","e"," ","n","Ã","³","m","i","n","a">>],
       [input |-> S_german_input,  reference |-> S_workday_lohn] >>

\* the datasets explored: every sequence of up to MaxCases cases of the
\* DATASET of copy v
Datasets(v) ==
    UNION {[1..n -> Range(IF v = "src" THEN DATASET ELSE DATASET_root)] :
            n \in 0..MaxCases}

\* what agent.invoke may return: a dict with an "output" string, or without one
AgentOutputs == {S_the_translation_is, S_workday_lohn}
AgentReturns == {[output |-> o] : o \in AgentOutputs} \cup {<<>>}

\* str(e) of the exceptions the collaborators may raise; str(Exception()) is ""
ExcMessages == {"", "Test exception"}

\* an "output" value that is not a string: an int n is [type |-> "int",
\* value |-> n] in the call log and is stored under the key raw_prediction_int
\* (older copy: prediction_int) of a result.  5 is truthy, 0 is falsy.
NonString == [type |-> "int", value |-> 5]

\* the TypeError re.search raises for an "output" that is not a string
NonStringOutputError == "expected string or bytes-like object, got 'int'"

\* what exact_evaluator.evaluate_strings may return as eval_result["score"]
EvalScores == {0, 1}

BLEU_THRESHOLD == 50

\* one entry of the call log: which function was called (case = loop index, -1
\* outside the loop), with what, whether it raised, and str(e) or the value returned
Call(fn, k, arg, raised, result) ==
    [fn |-> fn, case |-> k, arg |-> arg, raised |-> raised, result |-> result]

-----------------------------------------------------------------------------
(* evaluate_translations, src/src/evaluate_translation.py:185-249
   (src/evaluate_translation.py:67-126 is the same loop without the extractor
   and without the raw_prediction field) *)

\* lines 221-228 (root: 100-106): the record of a case that succeeded
SuccessRecord(v, k, test_case, raw_prediction, pred, score) ==
    IF v = "src"
    THEN [test_case |-> k, input |-> test_case.input, reference |-> test_case.reference,
          raw_prediction |-> raw_prediction, prediction |-> pred, score |-> score]
    ELSE [test_case |-> k, input |-> test_case.input, reference |-> test_case.reference,
          prediction |-> pred, score |-> score]

\* lines 234-242 (root: 112-119): the record of a case that raised
ErrorRecord(v, k, test_case, message) ==
    IF v = "src"
    THEN [test_case |-> k, input |-> test_case.input, reference |-> test_case.reference,
          raw_prediction |-> <<>>, prediction |-> <<>>, score |-> 0, error |-> message]
    ELSE [test_case |-> k, input |-> test_case.input, reference |-> test_case.reference,
          prediction |-> <<>>, score |-> 0, error |-> message]

\* line 213: src extracts the translation, root keeps the raw output
PredictionOf(v, raw_prediction) ==
    IF v = "src" THEN extract_translation_from_response(raw_prediction)
    ELSE raw_prediction

SimIdle ==
    /\ prediction = <<>>
    /\ reference = <<>>
    /\ sim_score = NoScore
    /\ char_fault = FALSE

BleuIdle ==
    /\ bleu_arg = PyNone
    /\ bleu_ret = [src |-> NoScore, root |-> NoScore]

ExtractIdle ==
    /\ ext_arg = <<>>
    /\ extracted = <<>>
    /\ rule = 0

AgentIdle ==
    /\ gloss = <<>>
    /\ agent_op = [fn |-> "none"]

PureIdle ==
    /\ SimIdle
    /\ BleuIdle
    /\ ExtractIdle
    /\ AgentIdle

Init ==
    /\ pc = "main"
    /\ variant \in {"src", "root"}
    /\ api_key \in {"absent", "", "sk-test"}
    \* a .env file matters when the environment has no usable key: next to
    \* "sk-test" it is left out, load_dotenv() would keep "sk-test"
    /\ dotenv \in IF api_key = "sk-test" THEN {"absent"} ELSE {"absent", "", "sk-dotenv"}
    /\ dataset \in Datasets(variant)
    /\ i = 0
    /\ evaluation_results = <<>>
    /\ calls = <<>>
    /\ eval_outcome = [status |-> "not_called"]
    /\ bleu_score = NoScore
    /\ stdout = <<>>
    /\ exit_code = -1
    /\ PureIdle

sim_vars == <<prediction, reference, sim_score, char_fault>>
bleu_vars == <<bleu_arg, bleu_ret>>
extract_vars == <<ext_arg, extracted, rule>>
agent_vars == <<gloss, agent_op>>
pure_vars == <<sim_vars, bleu_vars, extract_vars, agent_vars>>

\* load_dotenv(): a variable the environment does not have is set from the
\* .env file; one it has, even empty, is kept
load_dotenv(key, file) == IF key = "absent" THEN file ELSE key

\* the key main reads at line 264: src calls load_dotenv() first (line 259),
\* the older copy does not
MainKey == IF variant = "src" THEN load_dotenv(api_key, dotenv) ELSE api_key

\* main, lines 259-279: the credential is missing or empty
MainMissingKey ==
    /\ pc = "main"
    /\ MainKey \in {"absent", ""}
    /\ api_key' = MainKey
    /\ stdout' = Append(stdout, [tag |-> "ERROR",
                                 msg |-> "OPENAI_API_KEY not found in environment variables"])
    /\ exit_code' = 1
    /\ pc' = "exited"
    /\ UNCHANGED <<variant, dotenv, dataset, i, evaluation_results, calls,
                   eval_outcome, bleu_score, pure_vars>>

\* mutant: the evaluation starts without the credential check of line 275
MainCallsEvaluateUnguarded ==
    /\ pc = "main"
    /\ api_key' = MainKey
    /\ pc' = "create_agent"
    /\ eval_outcome' = [status |-> "running"]
    /\ UNCHANGED <<variant, dotenv, dataset, i, evaluation_results, calls,
                   bleu_score, stdout, exit_code, pure_vars>>

\* main, line 282: the credential is there, evaluate_translations is entered
MainCallsEvaluate ==
    /\ pc = "main"
    /\ MainKey \notin {"absent", ""}
    /\ api_key' = MainKey
    /\ pc' = "create_agent"
    /\ eval_outcome' = [status |-> "running"]
    /\ UNCHANGED <<variant, dotenv, dataset, i, evaluation_results, calls,
                   bleu_score, stdout, exit_code, pure_vars>>

\* mutant: a failure outside the loop is swallowed like a failure of a case,
\* and the (empty) list is returned
EscapeIsolated(fn, message) ==
    /\ calls' = Append(calls, Call(fn, -1, <<>>, TRUE, message))
    /\ eval_outcome' = [status |-> "returned"]
    /\ stdout' = Append(stdout, [tag |-> "RESULTS", results |-> evaluation_results])
    /\ pc' = "gate"
    /\ UNCHANGED <<variant, dotenv, api_key, dataset, i, evaluation_results,
                   bleu_score, exit_code, pure_vars>>

\* lines 247-249 and main 319-322: an exception outside the loop is re-raised
\* by evaluate_translations and ends main with [ERROR] and status 1
EscapeToMain(fn, message) ==
    /\ calls' = Append(calls, Call(fn, -1, <<>>, TRUE, message))
    /\ eval_outcome' = [status |-> "raised", error |-> message]
    /\ stdout' = Append(stdout, [tag |-> "ERROR", msg |-> message])
    /\ exit_code' = 1
    /\ pc' = "exited"
    /\ UNCHANGED <<variant, dotenv, api_key, dataset, i, evaluation_results,
                   bleu_score, pure_vars>>

\* line 196
CreateAgentOk ==
    /\ pc = "create_agent"
    /\ pc' = "load_evaluator"
    /\ calls' = Append(calls, Call("create_langchain_agent", -1, <<>>, FALSE, "agent"))
    /\ UNCHANGED <<variant, dotenv, api_key, dataset, i, evaluation_results,
                   eval_outcome, bleu_score, stdout, exit_code, pure_vars>>

CreateAgentRaises ==
    /\ pc = "create_agent"
    /\ \E message \in ExcMessages : EscapeToMain("create_langchain_agent", message)

\* lines 200-204
LoadEvaluatorOk ==
    /\ pc = "load_evaluator"
    /\ pc' = "loop"
    /\ calls' = Append(calls, Call("load_evaluator", -1, <<>>, FALSE, "exact_match"))
    /\ evaluation_results' = <<>>
    /\ i' = 0
    /\ UNCHANGED <<variant, dotenv, api_key, dataset, eval_outcome, bleu_score,
                   stdout, exit_code, pure_vars>>

LoadEvaluatorRaises ==
    /\ pc = "load_evaluator"
    /\ \E message \in ExcMessages : EscapeToMain("load_evaluator", message)

InLoop == pc = "loop" /\ i < Len(dataset)

\* line 209: agent.invoke({"input": test_case["input"]}), its outcome recorded
InvokeCall(k, test_case, raised, result) ==
    Call("invoke", k, test_case.input, raised, result)

\* lines 216-219: exact_evaluator.evaluate_strings(prediction=, reference=)
EvaluateCall(k, pred, test_case, raised, result) ==
    Call("evaluate_strings", k,
         [prediction |-> pred, reference |-> test_case.reference], raised, result)

\* mutant: the except branch of lines 232-242 does not append
LoopFrameDropsErrors(made, record) ==
    /\ calls' = calls \o made
    /\ evaluation_results' = IF "error" \in DOMAIN record
                             THEN evaluation_results
                             ELSE Append(evaluation_results, record)
    /\ i' = i + 1
    /\ UNCHANGED <<pc, variant, dotenv, api_key, dataset, eval_outcome, bleu_score,
                   stdout, exit_code, pure_vars>>

\* mutant: the record is inserted at the front of the list
LoopFramePrepends(made, record) ==
    /\ calls' = calls \o made
    /\ evaluation_results' = <<record>> \o evaluation_results
    /\ i' = i + 1
    /\ UNCHANGED <<pc, variant, dotenv, api_key, dataset, eval_outcome, bleu_score,
                   stdout, exit_code, pure_vars>>

\* one iteration, lines 206-242; i counts from 0 as enumerate does
LoopFrame(made, record) ==
    /\ calls' = calls \o made
    /\ evaluation_results' = Append(evaluation_results, record)
    /\ i' = i + 1
    /\ UNCHANGED <<pc, variant, dotenv, api_key, dataset, eval_outcome, bleu_score,
                   stdout, exit_code, pure_vars>>

\* lines 209-230: the call, the extraction and the evaluator all succeed
CaseSucceeds ==
    /\ InLoop
    /\ \E result \in AgentReturns, score \in EvalScores :
         LET raw_prediction == Get(result, "output", <<>>)
             pred == PredictionOf(variant, raw_prediction)
         IN  LoopFrame(<<InvokeCall(i, dataset[i + 1], FALSE, result),
                         EvaluateCall(i, pred, dataset[i + 1], FALSE, score)>>,
                       SuccessRecord(variant, i, dataset[i + 1], raw_prediction,
                                     pred, score))

\* mutant: a failed invocation is attempted a second time before the case is
\* given up
CaseInvokeRetried ==
    /\ InLoop
    /\ \E message \in ExcMessages :
         LoopFrame(<<InvokeCall(i, dataset[i + 1], TRUE, message),
                     InvokeCall(i, dataset[i + 1], TRUE, message)>>,
                   ErrorRecord(variant, i, dataset[i + 1], message))

\* line 209 raises
CaseInvokeRaises ==
    /\ InLoop
    /\ \E message \in ExcMessages :
         LoopFrame(<<InvokeCall(i, dataset[i + 1], TRUE, message)>>,
                   ErrorRecord(variant, i, dataset[i + 1], message))

\* the agent returned an "output" n that is not a string and the case goes on
\* to the evaluator: in src a falsy one (0), for which the extractor returns ""
\* at lines 51-52 before any pattern is tried; in the older copy any (0 and
\* NonString alike, the latter is taken), which is the prediction as it is
\* (line 92).  The evaluator returns a score or raises.
CaseNonStringEvaluated ==
    /\ InLoop
    /\ \E n \in {IF variant = "src" THEN 0 ELSE NonString.value} :
        /\ LET output == [type |-> "int", value |-> n]
               invoked == InvokeCall(i, dataset[i + 1], FALSE, [output |-> output])
               pred == IF variant = "src" THEN <<>> ELSE output
               head == [test_case |-> i, input |-> dataset[i + 1].input,
                        reference |-> dataset[i + 1].reference]
           IN  \/ \E score \in EvalScores :
                    LoopFrame(<<invoked,
                                EvaluateCall(i, pred, dataset[i + 1], FALSE, score)>>,
                              IF variant = "src"
                              THEN head @@ [raw_prediction_int |-> n,
                                            prediction |-> <<>>, score |-> score]
                              ELSE head @@ [prediction_int |-> n, score |-> score])
               \/ \E message \in ExcMessages :
                    LoopFrame(<<invoked,
                                EvaluateCall(i, pred, dataset[i + 1], TRUE, message)>>,
                              ErrorRecord(variant, i, dataset[i + 1], message))

\* line 213 raises: the agent returned a truthy "output" that is not a string,
\* which passes line 51 and makes re.search raise TypeError
CaseExtractorRaises ==
    /\ InLoop
    /\ variant = "src"
    /\ LoopFrame(<<InvokeCall(i, dataset[i + 1], FALSE, [output |-> NonString]),
                   Call("extract_translation_from_response", i, NonString,
                        TRUE, NonStringOutputError)>>,
                 ErrorRecord(variant, i, dataset[i + 1], NonStringOutputError))

\* lines 216-219 or 227 raise, after a successful call and extraction
CaseEvaluatorRaises ==
    /\ InLoop
    /\ \E result \in AgentReturns, message \in ExcMessages :
         LET pred == PredictionOf(variant, Get(result, "output", <<>>))
         IN  LoopFrame(<<InvokeCall(i, dataset[i + 1], FALSE, result),
                         EvaluateCall(i, pred, dataset[i + 1], TRUE, message)>>,
                       ErrorRecord(variant, i, dataset[i + 1], message))

\* lines 244-245 and main 283-304: the list is returned and printed
EvaluationReturns ==
    /\ pc = "loop"
    /\ i = Len(dataset)
    /\ eval_outcome' = [status |-> "returned"]
    /\ stdout' = Append(stdout, [tag |-> "RESULTS", results |-> evaluation_results])
    /\ pc' = "gate"
    /\ UNCHANGED <<variant, dotenv, api_key, dataset, i, evaluation_results, calls,
                   bleu_score, exit_code, pure_vars>>

\* mutant: strict comparison
GateStrict(score) == FlLt(Fl(BLEU_THRESHOLD, 1), score)

\* main, line 312: the gate
GatePasses(score) == FlGeq(score, Fl(BLEU_THRESHOLD, 1))

\* mutant: the handler of line 319 catches the SystemExit of line 314 too, so
\* the success path ends with [ERROR] and status 1
MainGateExitCaught ==
    /\ pc = "gate"
    /\ bleu_score' = IF variant = "src"
                     THEN calculate_bleu_score(PyList(evaluation_results))
                     ELSE calculate_bleu_score_root(PyList(evaluation_results))
    /\ LET score == bleu_score'
       IN  IF GatePasses(score)
           THEN stdout' = stdout \o <<[tag |-> "SUCCESS", score |-> score,
                                       threshold |-> BLEU_THRESHOLD],
                                      [tag |-> "ERROR", msg |-> "0"]>>
           ELSE stdout' = Append(stdout, [tag |-> "FAIL", score |-> score,
                                          threshold |-> BLEU_THRESHOLD])
    /\ exit_code' = 1
    /\ pc' = "exited"
    /\ UNCHANGED <<variant, dotenv, api_key, dataset, i, evaluation_results, calls,
                   eval_outcome, pure_vars>>

\* mutant: only the success is announced, a failed gate exits silently
MainGateSilentFail ==
    /\ pc = "gate"
    /\ bleu_score' = IF variant = "src"
                     THEN calculate_bleu_score(PyList(evaluation_results))
                     ELSE calculate_bleu_score_root(PyList(evaluation_results))
    /\ LET score == bleu_score'
       IN  IF GatePasses(score)
           THEN /\ stdout' = Append(stdout, [tag |-> "SUCCESS", score |-> score,
                                             threshold |-> BLEU_THRESHOLD])
                /\ exit_code' = 0
           ELSE /\ stdout' = stdout
                /\ exit_code' = 1
    /\ pc' = "exited"
    /\ UNCHANGED <<variant, dotenv, api_key, dataset, i, evaluation_results, calls,
                   eval_outcome, pure_vars>>

\* main, lines 307-317: aggregate, gate, exit
MainGate ==
    /\ pc = "gate"
    /\ bleu_score' = IF variant = "src"
                     THEN calculate_bleu_score(PyList(evaluation_results))
                     ELSE calculate_bleu_score_root(PyList(evaluation_results))
    /\ LET score == bleu_score'
       IN  IF GatePasses(score)
           THEN /\ stdout' = Append(stdout, [tag |-> "SUCCESS", score |-> score,
                                             threshold |-> BLEU_THRESHOLD])
                /\ exit_code' = 0
           ELSE /\ stdout' = Append(stdout, [tag |-> "FAIL", score |-> score,
                                             threshold |-> BLEU_THRESHOLD])
                /\ exit_code' = 1
    /\ pc' = "exited"
    /\ UNCHANGED <<variant, dotenv, api_key, dataset, i, evaluation_results, calls,
                   eval_outcome, pure_vars>>

Next ==
    \/ MainMissingKey
    \/ MainCallsEvaluate
    \/ CreateAgentOk
    \/ CreateAgentRaises
    \/ LoadEvaluatorOk
    \/ LoadEvaluatorRaises
    \/ CaseSucceeds
    \/ CaseInvokeRaises
    \/ CaseNonStringEvaluated
    \/ CaseExtractorRaises
    \/ CaseEvaluatorRaises
    \/ EvaluationReturns
    \/ MainGate

Spec == Init /\ [][Next]_vars

-----------------------------------------------------------------------------
(* The pure functions applied to generated arguments *)

RunIdle ==
    /\ variant = "src"
    /\ dotenv = "absent"
    /\ api_key = "absent"
    /\ dataset = <<>>
    /\ i = 0
    /\ evaluation_results = <<>>
    /\ calls = <<>>
    /\ eval_outcome = [status |-> "not_called"]
    /\ bleu_score = NoScore
    /\ stdout = <<>>
    /\ exit_code = -1
    /\ AgentIdle

run_vars == <<variant, dotenv, api_key, dataset, i, evaluation_results, calls,
              eval_outcome, bleu_score, stdout, exit_code, agent_vars>>

\* the characters of generated strings: a letter in both cases, a second
\* letter, whitespace and a character that is neither alphanumeric nor space
Alphabet == {"a", "A", "b", " ", "'"}

Strings == UNION {[1..n -> Alphabet] : n \in 0..MaxLen}

InitSim ==
    /\ pc = "sim_call"
    /\ RunIdle
    /\ prediction \in Strings
    /\ reference \in Strings
    /\ sim_score = NoScore
    /\ char_fault = FALSE
    /\ BleuIdle
    /\ ExtractIdle

SimilarityCall ==
    /\ pc = "sim_call"
    /\ sim_score' = calculate_similarity_score(prediction, reference)
    /\ pc' = "sim_done"
    /\ UNCHANGED <<run_vars, prediction, reference, char_fault, bleu_vars, extract_vars>>

NextSim == SimilarityCall

SpecSim == InitSim /\ [][NextSim]_vars

\* calculate_similarity_score on word lists: a reference of up to MaxWords
\* words joined by single spaces and a prediction of fewer words, the words
\* being two letters, the two together and a token without a letter
InitSimWords ==
    LET Words == {<<"a">>, <<"b">>, <<"a", "b">>, <<"'">>}
        RECURSIVE Joined(_)
        Joined(ws) == IF ws = <<>> THEN <<>>
                      ELSE IF Len(ws) = 1 THEN ws[1]
                      ELSE ws[1] \o <<" ">> \o Joined(Tail(ws))
        UpTo(k) == {Joined(ws) : ws \in UNION {[1..n -> Words] : n \in 0..k}}
    IN  /\ pc = "sim_call"
        /\ RunIdle
        /\ prediction \in UpTo(MaxWords - 1)
        /\ reference \in UpTo(MaxWords)
        /\ sim_score = NoScore
        /\ char_fault = FALSE
        /\ BleuIdle
        /\ ExtractIdle

SpecSimWords == InitSimWords /\ [][NextSim]_vars

\* calculate_similarity_score with an exception injected into its
\* character-level step or not
InitSimFault ==
    /\ pc = "simf_call"
    /\ RunIdle
    /\ prediction \in UNION {[1..n -> {"a", "b", " "}] : n \in 0..MaxLen}
    /\ reference \in UNION {[1..n -> {"a", "b", " "}] : n \in 0..MaxLen}
    /\ sim_score = NoScore
    /\ char_fault \in BOOLEAN
    /\ BleuIdle
    /\ ExtractIdle

SimilarityFaultCall ==
    /\ pc = "simf_call"
    /\ sim_score' = SimilarityWithFault(prediction, reference, char_fault)
    /\ pc' = "simf_done"
    /\ UNCHANGED <<run_vars, prediction, reference, char_fault, bleu_vars, extract_vars>>

NextSimFault == SimilarityFaultCall

SpecSimFault == InitSimFault /\ [][NextSimFault]_vars

\* result records given to calculate_bleu_score: with only a score, without a
\* score, and with prediction, reference and score
\* and records with the final scores 0.8, 2/3, 1/2 and 1/3
ResultPool ==
    { [score |-> 1],
      [score |-> 0],
      [prediction |-> S_nube_nomina, reference |-> S_nube_nomina],
      [prediction |-> S_incorrect_translation, reference |-> S_nube_nomina, score |-> 0],
      [prediction |-> <<"a", "b">>, reference |-> <<"a", " ", "b">>, score |-> 0],
      [prediction |-> <<"a", " ", "b", " ", "0">>,
       reference |-> <<"a", " ", "b", " ", "c">>, score |-> 0],
      [prediction |-> <<"a", " ", "0">>, reference |-> <<"a", " ", "b">>, score |-> 0],
      [prediction |-> <<"a", " ", "0">>,
       reference |-> <<"a", " ", "b", " ", "c">>, score |-> 0] }

InitBleu ==
    /\ pc = "bleu_call"
    /\ RunIdle
    /\ SimIdle
    /\ ExtractIdle
    /\ bleu_arg \in {PyNone} \cup {PyList(xs) :
                         xs \in UNION {[1..n -> ResultPool] : n \in 0..MaxResults}}
    /\ bleu_ret = [src |-> NoScore, root |-> NoScore]

\* result lists with items the loop cannot process: None in place of a dict,
\* a str score, an int prediction with and without a reference
R_score_str == [score_str |-> "high"]
R_prediction_int == [prediction_int |-> 5, reference |-> S_nube_nomina, score |-> 1]
R_prediction_int_only == [prediction_int |-> 5, score |-> 1]

InvalidPool ==
    { [score |-> 1],
      [prediction |-> S_incorrect_translation, reference |-> S_nube_nomina, score |-> 0],
      PyNone, R_score_str, R_prediction_int, R_prediction_int_only }

InitBleuInvalid ==
    /\ pc = "bleu_call"
    /\ RunIdle
    /\ SimIdle
    /\ ExtractIdle
    /\ bleu_arg \in {PyList(xs) : xs \in UNION {[1..n -> InvalidPool] : n \in 0..MaxResults}}
    /\ bleu_ret = [src |-> NoScore, root |-> NoScore]

\* well-formed records together with the two whose prediction is not a string
InitBleuMixed ==
    /\ pc = "bleu_call"
    /\ RunIdle
    /\ SimIdle
    /\ ExtractIdle
    /\ bleu_arg \in {PyList(xs) : xs \in UNION {[1..n -> ResultPool \cup {R_prediction_int,
                                                                R_prediction_int_only}] :
                                                  n \in 0..MaxResults}}
    /\ bleu_ret = [src |-> NoScore, root |-> NoScore]

BleuCall ==
    /\ pc = "bleu_call"
    /\ bleu_ret' = [src  |-> calculate_bleu_score(bleu_arg),
                    root |-> calculate_bleu_score_root(bleu_arg)]
    /\ pc' = "bleu_done"
    /\ UNCHANGED <<run_vars, sim_vars, extract_vars, bleu_arg>>

NextBleu == BleuCall

SpecBleu == InitBleu /\ [][NextBleu]_vars

SpecBleuInvalid == InitBleuInvalid /\ [][NextBleu]_vars

SpecBleuMixed == InitBleuMixed /\ [][NextBleu]_vars

\* pieces of agent responses: the three literal prefixes (the first also
\* holds the word "translation"), quoted texts with and without "is" before
\* them, a line break and a quote that is never closed
Fragments ==
    {P_Translation, P_Result, P_Output,
     <<" ", "i", "s", " ", "'", "x", "'">>,
     <<"I", "S", "\"", "y", "\"">>,
     <<"'", "z", " ", "'">>,
     <<"\n">>,
     <<" ", "v">>}

RECURSIVE Concat(_)
Concat(fs) == IF fs = <<>> THEN <<>> ELSE Head(fs) \o Concat(Tail(fs))

Responses ==
    {Concat(fs) : fs \in UNION {[1..n -> Fragments] : n \in 0..MaxFrags}}
        \cup {S_the_translation_is}

InitExtract ==
    /\ pc = "extract_call"
    /\ RunIdle
    /\ SimIdle
    /\ BleuIdle
    /\ ext_arg \in Responses
    /\ extracted = <<>>
    /\ rule = 0

\* one call of the extractor; rule is the index of the pattern whose match
\* made the loop of lines 62-67 return
ExtractCall ==
    /\ pc = "extract_call"
    /\ extracted' = extract_translation_from_response(ext_arg)
    /\ rule' = WinningRule(ext_arg)
    /\ pc' = "extract_done"
    /\ UNCHANGED <<run_vars, sim_vars, bleu_vars, ext_arg>>

NextExtract == ExtractCall

SpecExtract == InitExtract /\ [][NextExtract]_vars

-----------------------------------------------------------------------------
(* The translation tool and the agent factory, src/src/agent.py and the      *)
(* older copy src/agent.py.  GLOSS, a dict of dicts, is a list of            *)
(* [key, value] pairs in insertion order; a str returned by a function is    *)
(* [type |-> "str", value |-> its characters].                               *)

Pair(k, v) == [key |-> k, value |-> v]

\* the fallback glossary of src/src/agent.py:83-87
FallbackGloss ==
    <<Pair(<<"c", "l", "o", "u", "d">>, <<Pair(<<"e", "s">>, <<"n", "u", "b", "e">>), Pair(<<"d", "e">>, <<"C", "l", "o", "u", "d">>)>>),
      Pair(<<"p", "a", "y", "r", "o", "l", "l">>, <<Pair(<<"e", "s">>, <<"n", "o", "m", "i", "n", "a">>), Pair(<<"d", "e">>, <<"L", "o", "h", "n", "a", "b", "r", "e", "c", "h", "n", "u", "n", "g">>)>>),
      Pair(<<"W", "o", "r", "k", "d", "a", "y">>, <<Pair(<<"e", "s">>, <<"W", "o", "r", "k", "d", "a", "y">>), Pair(<<"d", "e">>, <<"W", "o", "r", "k", "d", "a", "y">>)>>)>>

\* a glossary file whose entries lack a language or hold an empty term
PartialGloss ==
    <<Pair(<<"c", "l", "o", "u", "d">>, <<Pair(<<"e", "s">>, <<"n", "u", "b", "e">>)>>),
      Pair(<<"p", "a", "y", "r", "o", "l", "l">>, <<Pair(<<"d", "e">>, <<"L", "o", "h", "n", "a", "b", "r", "e", "c", "h", "n", "u", "n", "g">>)>>),
      Pair(<<"W", "o", "r", "k", "d", "a", "y">>, <<Pair(<<"e", "s">>, <<>>), Pair(<<"d", "e">>, <<"W", "o", "r", "k", "d", "a", "y">>)>>)>>

\* lang[:2].lower()
LangCode(lang) == Lower(SubSeq(lang, 1, IF Len(lang) < 2 THEN Len(lang) ELSE 2))

\* the list comprehension over gloss_map.items(): GLOSS order, only the
\* entries whose value is truthy (neither None nor "")
RECURSIVE GlossTerms(_, _)
GlossTerms(G, code) ==
    IF G = <<>> THEN <<>>
    ELSE LET tgt == Head(G).value
             \* tgt.get(code): where the dict tgt holds the key (nowhere: None)
             hit == {n \in DOMAIN tgt : tgt[n].key = code}
         IN  IF hit # {} /\ tgt[Min(hit)].value # <<>>
             THEN <<[source_term |-> Head(G).key,
                     target_term |-> tgt[Min(hit)].value]>>
                      \o GlossTerms(Tail(G), code)
             ELSE GlossTerms(Tail(G), code)

apply_glossary(G, lang, text) == GlossTerms(G, LangCode(lang))

\* input_text.split("|", 1) with every "|" taken as the delimiter
SplitLastPipe(input_text) ==
    LET pipes == {k \in DOMAIN input_text : input_text[k] = "|"}
    IN  IF pipes = {} THEN <<input_text>>
        ELSE <<SubSeq(input_text, 1, Max(pipes) - 1),
               SubSeq(input_text, Max(pipes) + 1, Len(input_text))>>

\* input_text.split("|", 1)
SplitOnce(input_text) ==
    LET pipes == {k \in DOMAIN input_text : input_text[k] = "|"}
    IN  IF pipes = {} THEN <<input_text>>
        ELSE <<SubSeq(input_text, 1, Min(pipes) - 1),
               SubSeq(input_text, Min(pipes) + 1, Len(input_text))>>

E_InvalidFormat ==
    <<"E", "r", "r", "o", "r", ":", " ", "I", "n", "v", "a", "l", "i", "d",
      " ", "f", "o", "r", "m", "a", "t", ".", " ", "U", "s", "e", " ", "'",
      "<", "l", "a", "n", "g", "u", "a", "g", "e", ">", " ", "|", " ", "<",
      "t", "e", "x", "t", ">", "'", ".", " ", "G", "o", "t", ":", " ">>

E_NoKey ==
    <<"T", "r", "a", "n", "s", "l", "a", "t", "i", "o", "n", " ", "f", "a",
      "i", "l", "e", "d", ":", " ", "O", "P", "E", "N", "A", "I", "_", "A",
      "P", "I", "_", "K", "E", "Y", " ", "n", "o", "t", " ", "f", "o", "u",
      "n", "d", " ", "i", "n", " ", "e", "n", "v", "i", "r", "o", "n", "m",
      "e", "n", "t", " ", "v", "a", "r", "i", "a", "b", "l", "e", "s">>

E_Failed ==
    <<"T", "r", "a", "n", "s", "l", "a", "t", "i", "o", "n", " ", "f", "a",
      "i", "l", "e", "d", ":", " ">>

E_KeyNotFound ==
    <<"O", "P", "E", "N", "A", "I", "_", "A", "P", "I", "_", "K", "E", "Y",
      " ", "n", "o", "t", " ", "f", "o", "u", "n", "d", " ", "i", "n", " ",
      "e", "n", "v", "i", "r", "o", "n", "m", "e", "n", "t", " ", "v", "a",
      "r", "i", "a", "b", "l", "e", "s">>

\* ", ".join([f"{g['source_term']} -> {g['target_term']}" for g in glossary])
RECURSIVE JoinTerms(_)
JoinTerms(glossary) ==
    IF glossary = <<>> THEN <<>>
    ELSE Head(glossary).source_term \o <<" ", "-", ">", " ">> \o Head(glossary).target_term
            \o (IF Len(glossary) > 1
                THEN <<",", " ">> \o JoinTerms(Tail(glossary))
                ELSE <<>>)

L_UseTerms ==
    <<"\n", "U", "s", "e", " ", "t", "h", "e", "s", "e", " ", "g", "l", "o",
      "s", "s", "a", "r", "y", " ", "t", "e", "r", "m", "s", " ", "e", "x",
      "a", "c", "t", "l", "y", ":", " ">>

glossary_context(glossary) ==
    IF glossary # <<>> THEN L_UseTerms \o JoinTerms(glossary) ELSE <<>>

L_SrcPrompt1 ==
    <<"Y", "o", "u", " ", "a", "r", "e", " ", "a", " ", "p", "r", "o", "f",
      "e", "s", "s", "i", "o", "n", "a", "l", " ", "t", "r", "a", "n", "s",
      "l", "a", "t", "o", "r", ".", " ", "T", "r", "a", "n", "s", "l", "a",
      "t", "e", " ", "t", "h", "e", " ", "g", "i", "v", "e", "n", " ", "t",
      "e", "x", "t", " ", "t", "o", " ">>

L_SrcPrompt2 ==
    <<".", " ", "R", "e", "t", "u", "r", "n", " ", "O", "N", "L", "Y", " ",
      "t", "h", "e", " ", "t", "r", "a", "n", "s", "l", "a", "t", "e", "d",
      " ", "t", "e", "x", "t", ",", " ", "n", "o", "t", "h", "i", "n", "g",
      " ", "e", "l", "s", "e", ".", " ", "D", "o", " ", "n", "o", "t", " ",
      "i", "n", "c", "l", "u", "d", "e", " ", "a", "n", "y", " ", "e", "x",
      "p", "l", "a", "n", "a", "t", "i", "o", "n", "s", ",", " ", "q", "u",
      "o", "t", "e", "s", ",", " ", "o", "r", " ", "a", "d", "d", "i", "t",
      "i", "o", "n", "a", "l", " ", "t", "e", "x", "t", ".", " ", "J", "u",
      "s", "t", " ", "t", "h", "e", " ", "d", "i", "r", "e", "c", "t", " ",
      "t", "r", "a", "n", "s", "l", "a", "t", "i", "o", "n", ".">>

L_RootPrompt1 ==
    <<"T", "r", "a", "n", "s", "l", "a", "t", "e", " ", "t", "h", "e", " ",
      "f", "o", "l", "l", "o", "w", "i", "n", "g", " ", "t", "e", "x", "t",
      " ", "t", "o", " ">>

L_RootPrompt2 ==
    <<".", " ", "R", "e", "t", "u", "r", "n", " ", "o", "n", "l", "y", " ",
      "t", "h", "e", " ", "t", "r", "a", "n", "s", "l", "a", "t", "e", "d",
      " ", "t", "e", "x", "t", ".">>

\* the content of the SystemMessage
system_prompt(v, language, glossary) ==
    IF v = "src"
    THEN L_SrcPrompt1 \o language \o L_SrcPrompt2 \o glossary_context(glossary)
    ELSE L_RootPrompt1 \o language \o L_RootPrompt2 \o glossary_context(glossary)

\* result[1:-1] when result starts and ends with the quote q
Unquote(result, q) ==
    IF result # <<>> /\ Head(result) = q /\ result[Len(result)] = q
    THEN SubSeq(result, 2, Len(result) - 1)
    ELSE result

\* a lone surrogate code point, which str.encode('utf-8') rejects
Surrogate == "\\ud800"

\* result.encode('utf-8').decode('utf-8'), and on UnicodeEncodeError
\* result.encode('ascii', errors='replace').decode('ascii')
EncodeDecode(result) ==
    IF \E k \in DOMAIN result : result[k] = Surrogate
    THEN [k \in DOMAIN result |->
            IF result[k] \in AsciiChars THEN result[k] ELSE "?"]
    ELSE result

\* what the tool makes of response.content
Postprocess(v, content) ==
    IF v = "src"
    THEN EncodeDecode(Unquote(Unquote(Strip(content), "\""), "'"))
    ELSE Strip(content)

\* translate_tool(input_text) of copy v, with OPENAI_API_KEY = key and
\* GLOSS = G; llm tells how the chat model behaves: whether its constructor
\* raises, whether invoke raises (with llm.message) or answers llm.content.
\* The result: the calls made, in order, and the outcome.
translate_tool(v, key, G, input_text, llm) ==
    LET parts == SplitOnce(input_text)
    IN  IF Len(parts) # 2
        THEN [made |-> <<>>, raised |-> FALSE,
              ret |-> [type |-> "str", value |-> E_InvalidFormat \o input_text]]
        ELSE
        LET language == Strip(parts[1])
            text == Strip(parts[2])
            glossary == apply_glossary(G, language, text)
            g_call == [fn |-> "_apply_glossary", lang |-> language,
                       text |-> text, result |-> glossary]
            ctor(r) == [fn |-> "ChatOpenAI", openai_api_key |-> key,
                        raised |-> r]
            invoke(r) == [fn |-> "invoke",
                          system |-> system_prompt(v, language, glossary),
                          human |-> text, raised |-> r]
        IN  IF v = "src" /\ key \in {"absent", ""}
            THEN [made |-> <<g_call>>, raised |-> FALSE, ret |-> [type |-> "str", value |-> E_NoKey]]
            ELSE IF llm.ctor_raises
            THEN \* the constructor is outside the try: its exception leaves
                 \* translate_tool
                 [made |-> <<g_call, ctor(TRUE)>>, raised |-> TRUE,
                  ret |-> [type |-> "Exception", message |-> llm.message]]
            ELSE IF llm.raises
            THEN [made |-> <<g_call, ctor(FALSE), invoke(TRUE)>>,
                  raised |-> FALSE,
                  ret |-> [type |-> "str", value |-> E_Failed \o llm.message]]
            ELSE [made |-> <<g_call, ctor(FALSE), invoke(FALSE)>>,
                  raised |-> FALSE,
                  ret |-> [type |-> "str", value |-> Postprocess(v, llm.content)]]


\* create_langchain_agent with the key checked after the LLM is constructed
CreateAgentChecksKeyLate(key, llm_raises, react) ==
    LET llm_call == [fn |-> "OpenAI", openai_api_key |-> key,
                     raised |-> llm_raises]
    IN  IF llm_raises
        THEN [made |-> <<llm_call>>, raised |-> TRUE,
              ret |-> [type |-> "Exception", message |-> <<"l", "l", "m">>]]
        ELSE IF key \in {"absent", ""}
        THEN [made |-> <<llm_call>>, raised |-> TRUE,
              ret |-> [type |-> "ValueError", message |-> E_KeyNotFound]]
        ELSE [made |-> <<llm_call,
                         [fn |-> "create_react_agent",
                          tools |-> <<"Echo", "Translate">>,
                          raised |-> react.raised, ret |-> react.ret]>>,
              raised |-> react.raised,
              ret |-> react.ret]

\* create_langchain_agent() with OPENAI_API_KEY = key after load_dotenv();
\* llm_raises: the OpenAI constructor raises; react: the outcome of
\* create_react_agent(llm, tools).  Neither call is inside a try.
create_langchain_agent(key, llm_raises, react) ==
    IF key \in {"absent", ""}
    THEN [made |-> <<>>, raised |-> TRUE,
          ret |-> [type |-> "ValueError", message |-> E_KeyNotFound]]
    ELSE
    LET llm_call == [fn |-> "OpenAI", openai_api_key |-> key,
                     raised |-> llm_raises]
    IN  IF llm_raises
        THEN [made |-> <<llm_call>>, raised |-> TRUE,
              ret |-> [type |-> "Exception", message |-> <<"l", "l", "m">>]]
        ELSE [made |-> <<llm_call,
                         [fn |-> "create_react_agent",
                          tools |-> <<"Echo", "Translate">>,
                          raised |-> react.raised, ret |-> react.ret]>>,
              raised |-> react.raised,
              ret |-> react.ret]

\* arguments given to translate_tool: the two inputs of DATASET, inputs with
\* no, one and two delimiters, untrimmed sides, language codes
ToolInputs ==
    {S_spanish_input, S_german_input,
     <<"S", "p", "a", "n", "i", "s", "h", " ", "c", "l", "o", "u", "d", " ", "p", "a", "y", "r", "o", "l", "l">>, <<>>, <<"|">>, <<" ", "|", " ", "x">>,
     <<"e", "s", " ", "|", " ", "a", " ", "|", " ", "b">>, <<"d", "e", "|", "W", "o", "r", "k", "d", "a", "y">>, <<" ", " ", "E", "S", " ", " ", "|", " ", " ", "c", "l", "o", "u", "d", " ", " ">>, <<"f", "r", " ", "|", " ", "c", "l", "o", "u", "d">>}

\* how the chat model behaves during one call of translate_tool
LLMOutcomes ==
    {[ctor_raises |-> FALSE, raises |-> FALSE, content |-> c, message |-> <<>>] :
        c \in {S_nube_nomina, <<" ", "'", "h", "o", "l", "a", "'", " ">>, <<"\"", "L", "o", "h", "n", "\"">>, <<"'">>, <<"a", Surrogate, "ó">>}}
    \cup {[ctor_raises |-> FALSE, raises |-> TRUE, content |-> <<>>, message |-> e] :
            e \in {<<"b", "o", "o", "m">>, <<>>}}
    \cup {[ctor_raises |-> TRUE, raises |-> FALSE, content |-> <<>>, message |-> <<"c", "t", "o", "r">>]}

\* how create_react_agent(llm, tools) ends
ReactOutcomes ==
    {[raised |-> FALSE, ret |-> [type |-> "AgentExecutor", id |-> n]] : n \in {1, 2}}
    \cup {[raised |-> TRUE, ret |-> [type |-> "Exception", message |-> <<"r", "e", "a", "c", "t">>]]}

InitAgent ==
    /\ pc = "agent"
    /\ variant \in {"src", "root"}
    /\ dotenv \in {"absent", "", "sk-dotenv"}
    /\ api_key \in {"absent", "", "sk-test"}
    \* the glossary file as loaded, or GLOSS = {} of src/src/agent.py:90
    /\ gloss \in {FallbackGloss, PartialGloss, <<>>}
    /\ agent_op = [fn |-> "none"]
    /\ dataset = <<>>
    /\ i = 0
    /\ evaluation_results = <<>>
    /\ calls = <<>>
    /\ eval_outcome = [status |-> "not_called"]
    /\ bleu_score = NoScore
    /\ stdout = <<>>
    /\ exit_code = -1
    /\ SimIdle
    /\ BleuIdle
    /\ ExtractIdle

agent_frame == <<pc, variant, dotenv, dataset, i, evaluation_results, calls,
                 eval_outcome, bleu_score, stdout, exit_code, sim_vars,
                 bleu_vars, extract_vars, gloss>>

\* one call of _apply_glossary(lang, text), on a language label, a language
\* code or less
ApplyGlossaryCall ==
    /\ pc = "agent"
    /\ \E lang \in {<<"S", "p", "a", "n", "i", "s", "h">>, <<"G", "e", "r", "m", "a", "n">>,
                     <<"e", "s">>, <<"d", "e">>, <<"E", "S">>,
                     <<"E", "s", "p", "a", "ñ", "o", "l">>,
                     <<"D", "e", "u", "t", "s", "c", "h">>, <<"f", "r">>, <<"e">>, <<>>} :
        agent_op' = [fn |-> "_apply_glossary", arg |-> lang, made |-> <<>>,
                     raised |-> FALSE,
                     ret |-> [type |-> "list",
                              items |-> apply_glossary(gloss, lang, <<>>)]]
    /\ UNCHANGED <<agent_frame, api_key>>

\* one call of translate_tool(input_text)
TranslateCall ==
    /\ pc = "agent"
    /\ \E input_text \in ToolInputs, llm \in LLMOutcomes :
        LET out == translate_tool(variant, api_key, gloss, input_text, llm)
        IN  agent_op' = [fn |-> "translate_tool", arg |-> input_text,
                         made |-> out.made, raised |-> out.raised,
                         ret |-> out.ret]
    /\ UNCHANGED <<agent_frame, api_key>>

\* one call of create_langchain_agent(): load_dotenv() (line 240) may set the
\* variable, for this call and for every later one
CreateAgentCall ==
    /\ pc = "agent"
    /\ api_key' = load_dotenv(api_key, dotenv)
    /\ \E llm_raises \in BOOLEAN, react \in ReactOutcomes :
        LET out == create_langchain_agent(api_key', llm_raises, react)
        IN  agent_op' = [fn |-> "create_langchain_agent", arg |-> <<>>,
                         made |-> out.made, raised |-> out.raised,
                         ret |-> out.ret]
    /\ UNCHANGED agent_frame

\* main() of agent.py, lines 280-300: the agent is created, invoked once on the
\* sample input and its "output" printed; every exception is logged and
\* re-raised
AgentMain ==
    /\ pc = "agent"
    /\ api_key' = load_dotenv(api_key, dotenv)
    /\ \E llm_raises \in BOOLEAN, react \in ReactOutcomes,
          inv \in {[raised |-> FALSE, ret |-> r] : r \in AgentReturns}
                    \cup {[raised |-> TRUE,
                           ret |-> [type |-> "Exception",
                                    message |-> <<"i","n","v","o","k","e">>]]} :
        LET created == create_langchain_agent(api_key', llm_raises, react)
            invoke == [fn |-> "invoke", raised |-> inv.raised, ret |-> inv.ret,
                       input |-> <<"R","u","s","s","i","a","n"," ","|"," ","G","o","o","d",
                                   " ","m","o","r","n","i","n","g","!">>]
        IN  agent_op' =
              IF created.raised
              THEN [fn |-> "main", arg |-> <<>>, made |-> created.made,
                    raised |-> TRUE, ret |-> created.ret, printed |-> <<>>]
              ELSE IF inv.raised
              THEN [fn |-> "main", arg |-> <<>>,
                    made |-> Append(created.made, invoke),
                    raised |-> TRUE, ret |-> inv.ret, printed |-> <<>>]
              ELSE [fn |-> "main", arg |-> <<>>,
                    made |-> Append(created.made, invoke),
                    raised |-> FALSE, ret |-> PyNone,
                    printed |-> <<[tag |-> "Agent response:",
                                   output |-> Get(inv.ret, "output",
                                       <<"N","o"," ","o","u","t","p","u","t"," ",
                                         "g","e","n","e","r","a","t","e","d">>)]>>]
    /\ UNCHANGED agent_frame

NextAgent ==
    \/ ApplyGlossaryCall
    \/ TranslateCall
    \/ CreateAgentCall
    \/ AgentMain

SpecAgent == InitAgent /\ [][NextAgent]_vars

-----------------------------------------------------------------------------
(* Claims *)

Returned == eval_outcome.status = "returned"

\* the entries of the call log that belong to case k (0-based) and raised
RaisedIn(k) == {n \in DOMAIN calls : calls[n].case = k /\ calls[n].raised}

\* the entries of the call log of case k for function fn
CallsOf(k, fn) == {n \in DOMAIN calls : calls[n].case = k /\ calls[n].fn = fn}

\* C1: every case appends exactly one record, whether it succeeds or raises:
\* after k cases the list holds k records (one per invocation made), and the
\* list returned for a dataset of N cases holds N records.
C1_OneRecordPerCase ==
    /\ pc = "loop" => Len(evaluation_results) = i
    /\ Len(evaluation_results) = Cardinality({n \in DOMAIN calls : calls[n].fn = "invoke"})
    /\ Returned => Len(evaluation_results) = Len(dataset)

C1_Witness ==
    /\ Returned
    /\ Len(dataset) = 2
    /\ Len(evaluation_results) = 2
    /\ "error" \in DOMAIN evaluation_results[1]
    /\ "error" \notin DOMAIN evaluation_results[2]

\* C2: a case whose call, extraction or scoring raised has the record
\* prediction "", score 0 and a non-empty error holding the exception's message;
\* every other case has its extracted prediction and the evaluator's score and
\* no error field.
C2_FailureRecordNonEmptyError ==
    \A k \in 0..(Len(evaluation_results) - 1) :
        LET r == evaluation_results[k + 1]
        IN  IF RaisedIn(k) # {}
            THEN /\ r.prediction = <<>>
                 /\ r.score = 0
                 /\ "error" \in DOMAIN r
                 /\ r.error = calls[CHOOSE n \in RaisedIn(k) : TRUE].result
                 /\ r.error # ""
            ELSE /\ "error" \notin DOMAIN r
                 /\ \E n \in CallsOf(k, "invoke"), m \in CallsOf(k, "evaluate_strings") :
                       /\ r.prediction =
                            PredictionOf(variant, Get(calls[n].result, "output", <<>>))
                       /\ r.score = calls[m].result

\* C3: the record at position k (0-based) has test_case = k and the input and
\* the reference of dataset case k, whatever happened to any case.
C3_DatasetOrder ==
    \A k \in DOMAIN evaluation_results :
        /\ evaluation_results[k].test_case = k - 1
        /\ evaluation_results[k].input = dataset[k].input
        /\ evaluation_results[k].reference = dataset[k].reference

C3_Witness ==
    /\ Returned
    /\ Len(evaluation_results) = 2
    /\ dataset[1] # dataset[2]
    /\ "error" \notin DOMAIN evaluation_results[1]
    /\ "error" \in DOMAIN evaluation_results[2]

\* C4: the similarity score lies in [0, 1] for all strings.
C4_ScoreBounds ==
    pc = "sim_done" => FlGeq(sim_score, Zero) /\ FlGeq(One, sim_score)

C4_Witness ==
    /\ pc = "sim_done"
    /\ FlLt(Zero, sim_score)
    /\ FlLt(sim_score, One)
    /\ sim_score = FlMul(CharScore(Strip(Lower(prediction)), Strip(Lower(reference))),
                          CharWeight)

\* C5 as stated: whenever the normalized prediction equals the normalized
\* reference the score is exactly 1.0, for every pair of strings.
C5_NormalizedEqualIsOne ==
    pc = "sim_done" /\ Strip(Lower(prediction)) = Strip(Lower(reference))
        => sim_score = One

\* C5 amended: for every pair of non-empty strings, if the normalized prediction
\* equals the normalized reference the score is exactly 1.0 (an empty argument
\* gives 0.0 before any normalization).
C5_NonEmptyNormalizedEqualIsOne ==
    (/\ pc = "sim_done"
     /\ prediction # <<>>
     /\ reference # <<>>
     /\ Strip(Lower(prediction)) = Strip(Lower(reference)))
        => sim_score = One

C5_Witness ==
    /\ pc = "sim_done"
    /\ prediction = <<" ", "A">>
    /\ reference = <<"a", " ">>
    /\ sim_score = One

\* C6: the score is 0.0 whenever either argument is the empty string, also
\* when the other is empty or whitespace, i.e. when the normalized forms are equal.
C6_EmptyIsZero ==
    pc = "sim_done" /\ (prediction = <<>> \/ reference = <<>>) => sim_score = Zero

C6_Witness ==
    /\ pc = "sim_done"
    /\ prediction = <<>>
    /\ Strip(Lower(reference)) = <<>>
    /\ sim_score = Zero

\* C7: both copies of calculate_bleu_score return 0.0 for an empty list and
\* for None.
C7_EmptyResultsZero ==
    pc = "bleu_done" /\ ~Truthy(bleu_arg)
        => bleu_ret.src = Zero /\ bleu_ret.root = Zero

C7_Witness ==
    /\ pc = "bleu_done"
    /\ bleu_arg = PyNone
    /\ bleu_ret = [src |-> Zero, root |-> Zero]

\* the sum of max(score, similarity(prediction, reference)) over a list of
\* results, a missing prediction or reference read as "" and a missing score as 0
\* (floats, added from the first result to the last)
RECURSIVE SumOfMax(_)
SumOfMax(xs) ==
    IF xs = <<>> THEN Zero
    ELSE LET x == xs[Len(xs)]
             s == Fl(IF "score" \in DOMAIN x THEN x.score ELSE 0, 1)
             m == calculate_similarity_score(
                      IF "prediction" \in DOMAIN x THEN x.prediction ELSE <<>>,
                      IF "reference" \in DOMAIN x THEN x.reference ELSE <<>>)
         IN  FlAdd(SumOfMax(SubSeq(xs, 1, Len(xs) - 1)), IF FlGeq(s, m) THEN s ELSE m)

ScoresOnly1010 == <<[score |-> 1], [score |-> 0], [score |-> 1], [score |-> 0]>>

\* C8 (as stated): for a non-empty list the aggregate is the float
\* 100 * sum_i max(score_i, similarity_i) / count, the product taken before the
\* division; results with only the scores 1, 0, 1, 0 give 50.0.
C8_AggregateFormula ==
    pc = "bleu_done" /\ Truthy(bleu_arg) =>
        /\ bleu_ret.src = FlDivInt(FlMul(Fl(100, 1), SumOfMax(bleu_arg.items)),
                                   Len(bleu_arg.items))
        /\ bleu_arg.items = ScoresOnly1010 => bleu_ret.src = Fl(50, 1)

\* C8 (amended): the aggregate is the float (sum_i max(score_i, similarity_i)
\* / count) * 100, the division taken before the product, each step rounded
\* to a double; results with only the scores 1, 0, 1, 0 give 50.0.
C8_MeanTimesHundred ==
    pc = "bleu_done" /\ Truthy(bleu_arg) =>
        /\ bleu_ret.src = FlMul(FlDivInt(SumOfMax(bleu_arg.items), Len(bleu_arg.items)),
                                Fl(100, 1))
        /\ bleu_arg.items = ScoresOnly1010 => bleu_ret.src = Fl(50, 1)

\* final scores 2/3, 1/2 and 1/3 add up to 1.4999999999999998 and the
\* aggregate is 49.99999999999999, below the threshold
C8_Witness ==
    /\ pc = "bleu_done"
    /\ Truthy(bleu_arg)
    /\ bleu_arg.items =
         <<[prediction |-> <<"a", " ", "b", " ", "0">>,
            reference |-> <<"a", " ", "b", " ", "c">>, score |-> 0],
           [prediction |-> <<"a", " ", "0">>, reference |-> <<"a", " ", "b">>,
            score |-> 0],
           [prediction |-> <<"a", " ", "0">>,
            reference |-> <<"a", " ", "b", " ", "c">>, score |-> 0]>>
    /\ FlLt(bleu_ret.src, Fl(50, 1))
    /\ FlLt(Fl(49, 1), bleu_ret.src)

BadResult ==
    [prediction |-> S_incorrect_translation, reference |-> S_nube_nomina, score |-> 0]

TwoBadResults == PyList(<<BadResult, BadResult>>)

BadWordOverlapIsZeroOfTwo ==
    /\ Cardinality(Range(Split(Strip(Lower(BadResult.reference))))) = 2
    /\ WordScore(Strip(Lower(BadResult.prediction)),
                 Strip(Lower(BadResult.reference))) = Zero

\* C9 as stated: for "incorrect translation" against "nube nómina" with exact
\* score 0 the word overlap is 0/2 and the aggregate over two such results is
\* 0.0, so the gate fails.
C9_AggregateIsZero ==
    pc = "bleu_done" /\ bleu_arg = TwoBadResults =>
        /\ BadWordOverlapIsZeroOfTwo
        /\ bleu_ret.src = Zero
        /\ ~GatePasses(bleu_ret.src)

\* C9 amended: the word overlap is 0/2 = 0.0, the character overlap is 4/8, so
\* each result's final score is 0.8 * 0.5 = 0.4 and the aggregate over two such
\* results is 40.0; the gate against threshold 50.0 fails.
C9_AggregateIsForty ==
    pc = "bleu_done" /\ bleu_arg = TwoBadResults =>
        /\ BadWordOverlapIsZeroOfTwo
        /\ CharScore(Strip(Lower(BadResult.prediction)),
                     Strip(Lower(BadResult.reference))) = Fl(4, 8)
        /\ FinalScore(BadResult) = Fl(2, 5)
        /\ bleu_ret.src = Fl(40, 1)
        /\ ~GatePasses(bleu_ret.src)

C9_Witness ==
    /\ pc = "bleu_done"
    /\ bleu_arg = TwoBadResults
    /\ bleu_ret.src = Fl(40, 1)

GateReached == pc = "exited" /\ bleu_score # NoScore

\* C10: the gate passes ([SUCCESS] is printed) iff the aggregate is >= the
\* threshold 50.0, and fails ([FAIL]) iff it is strictly below; an aggregate
\* equal to the threshold passes.
C10_GateIffAtLeastThreshold ==
    GateReached =>
        LET last == stdout[Len(stdout)]
        IN  /\ last.tag \in {"SUCCESS", "FAIL"}
            /\ last.score = bleu_score
            /\ last.tag = "SUCCESS" <=> FlGeq(bleu_score, Fl(BLEU_THRESHOLD, 1))
            /\ last.tag = "FAIL" <=> FlLt(bleu_score, Fl(BLEU_THRESHOLD, 1))

C10_Witness ==
    /\ GateReached
    /\ bleu_score = Fl(BLEU_THRESHOLD, 1)
    /\ stdout[Len(stdout)].tag = "SUCCESS"


KeyPresent == api_key \notin {"absent", ""}

\* an exception escaped evaluate_translations: a call outside the loop raised
Escaped == \E n \in DOMAIN calls : calls[n].case = -1 /\ calls[n].raised

\* C11: main ends with status 0 or 1 and nothing else; the status is 0 iff the
\* credential is present, no exception escaped and the aggregate is at or above
\* the threshold.
C11_ExitStatus ==
    /\ pc = "exited" <=> exit_code \in {0, 1}
    /\ pc # "exited" => exit_code = -1
    /\ pc = "exited" =>
         (exit_code = 0 <=>
            /\ KeyPresent
            /\ ~Escaped
            /\ bleu_score # NoScore
            /\ FlGeq(bleu_score, Fl(BLEU_THRESHOLD, 1)))
    /\ pc = "exited" /\ (~KeyPresent \/ Escaped) => exit_code = 1 /\ bleu_score = NoScore

C11_Witness ==
    /\ pc = "exited"
    /\ exit_code = 0
    /\ KeyPresent
    /\ Len(evaluation_results) = 2
    /\ "error" \in DOMAIN evaluation_results[2]

\* C12: without the credential (absent or empty) main exits with status 1
\* before any evaluation work: no agent, no evaluator, no invocation, no
\* report and no gate line; only the [ERROR] line is printed.
C12_MissingKeyAbortsFirst ==
    ~KeyPresent =>
        /\ calls = <<>>
        /\ eval_outcome.status = "not_called"
        /\ evaluation_results = <<>>
        /\ bleu_score = NoScore
        /\ pc \in {"main", "exited"}
        /\ pc = "exited" =>
             /\ exit_code = 1
             /\ Len(stdout) = 1
             /\ stdout[1].tag = "ERROR"

C12_Witness ==
    /\ api_key = ""
    /\ pc = "exited"
    /\ exit_code = 1
    /\ Len(dataset) > 0


Extracted == pc = "extract_done"

\* the quoted texts of a response: <<a, b>> when a and b are positions of
\* quote characters with at least one character and no quote between them
QuotedSpans(s) ==
    {ab \in (1..Len(s)) \X (1..Len(s)) :
        /\ ab[1] + 1 < ab[2]
        /\ IsQuote(s[ab[1]])
        /\ IsQuote(s[ab[2]])
        /\ \A n \in (ab[1] + 1)..(ab[2] - 1) : ~IsQuote(s[n])}

\* positions k where "is" (in any case) stands, followed by whitespace only up
\* to the opening quote at a
IsBefore(s, a) ==
    {k \in 1..(a - 2) : /\ LitAt(s, k, L_is)
                        /\ \A n \in (k + 2)..(a - 1) : IsSpace(s[n])}

\* the quoted texts each rule can capture
Rule3Spans(s) == QuotedSpans(s)
Rule2Spans(s) == {ab \in QuotedSpans(s) : IsBefore(s, ab[1]) # {}}
Rule1Spans(s) ==
    {ab \in QuotedSpans(s) :
        \E k \in IsBefore(s, ab[1]), t \in 1..Len(s) :
            /\ LitAt(s, t, L_translation)
            /\ t + Len(L_translation) <= k
            /\ \A n \in (t + Len(L_translation))..(k - 1) : s[n] # "\n"}

RuleSpans(s, n) ==
    IF n = 1 THEN Rule1Spans(s) ELSE IF n = 2 THEN Rule2Spans(s) ELSE Rule3Spans(s)

Capture(s, ab) == Strip(SubSeq(s, ab[1] + 1, ab[2] - 1))

\* C13: the result is the trimmed capture of the lowest-numbered rule that can
\* match somewhere in the response; a rule is used only if no earlier rule
\* matches anywhere, wherever the matches start.
C13_LowestRuleWins ==
    Extracted /\ ext_arg # <<>> =>
        /\ \A n \in 1..3 :
             (RuleSpans(ext_arg, n) # {} /\ \A e \in 1..(n - 1) : RuleSpans(ext_arg, e) = {})
                => /\ rule = n
                   /\ extracted \in {Capture(ext_arg, ab) : ab \in RuleSpans(ext_arg, n)}
        /\ rule = 0 <=> QuotedSpans(ext_arg) = {}

\* rule 2 wins although a quoted text (rule 3's match) starts earlier
C13_Witness ==
    /\ Extracted
    /\ rule = 2
    /\ extracted = <<"x">>
    /\ \E ab \in Rule3Spans(ext_arg) : \A cd \in Rule2Spans(ext_arg) : ab[1] < cd[1]


\* the leftmost of a non-empty set of spans (spans of one response never share
\* their opening quote)
Leftmost(spans) == CHOOSE ab \in spans : \A cd \in spans : ab[1] <= cd[1]

\* C14: when the winning rule can capture several quoted texts, the result is
\* the leftmost of them, never a later one.
C14_LeftmostCapture ==
    Extracted /\ rule \in 1..3 =>
        extracted = Capture(ext_arg, Leftmost(RuleSpans(ext_arg, rule)))

\* C15 as claimed: "The translation is 'nube nómina'." gives "nube nómina" and
\* the second rule produces it.
C15_SecondRuleProducesIt ==
    Extracted /\ ext_arg = S_the_translation_is =>
        extracted = S_nube_nomina /\ rule = 2

\* C15 as amended: "The translation is 'nube nómina'." gives "nube nómina" and
\* the first rule produces it; the second rule is not reached, though it would
\* capture the same text.
C15_FirstRuleProducesIt ==
    Extracted /\ ext_arg = S_the_translation_is =>
        /\ extracted = S_nube_nomina
        /\ rule = 1
        /\ {Capture(ext_arg, ab) : ab \in Rule2Spans(ext_arg)} = {S_nube_nomina}

C15_Witness ==
    /\ Extracted
    /\ ext_arg = S_the_translation_is
    /\ extracted = S_nube_nomina
    /\ rule = 1

Prefixes == {P_Translation, P_Result, P_Output}

\* the text after a leading prefix, trimmed again
After(t, prefix) == Strip(SubSeq(t, Len(prefix) + 1, Len(t)))

\* C16 as claimed: without a quoted text the result is the trimmed response,
\* less exactly the one prefix it starts with (if any), trimmed again; the
\* empty response gives the empty string.
C16_OnePrefixRemoved ==
    Extracted /\ QuotedSpans(ext_arg) = {} =>
        LET t == Strip(ext_arg)
        IN  /\ \A prefix \in Prefixes : StartsWith(t, prefix) => extracted = After(t, prefix)
            /\ (\A prefix \in Prefixes : ~StartsWith(t, prefix)) => extracted = t

\* C16 as amended: without a quoted text the prefixes are tested once each, in
\* the order "Translation:", "Result:", "Output:", against what is left at that
\* point; so prefixes chained in that order are all removed, one that follows a
\* later-listed prefix stays, a response that starts with none of them is
\* returned trimmed, and the empty response gives the empty string.
C16_PrefixesInListOrder ==
    Extracted /\ QuotedSpans(ext_arg) = {} =>
        LET t == Strip(ext_arg)
            LessOutput(r) == IF StartsWith(r, P_Output) THEN After(r, P_Output) ELSE r
            LessResult(r) == IF StartsWith(r, P_Result)
                             THEN LessOutput(After(r, P_Result)) ELSE LessOutput(r)
        IN  /\ ext_arg = <<>> => extracted = <<>>
            /\ (\A prefix \in Prefixes : ~StartsWith(t, prefix)) => extracted = t
            /\ StartsWith(t, P_Output) => extracted = After(t, P_Output)
            /\ StartsWith(t, P_Result) => extracted = LessOutput(After(t, P_Result))
            /\ StartsWith(t, P_Translation) => extracted = LessResult(After(t, P_Translation))

\* "Translation:Result: v" loses both prefixes
C16_Witness ==
    /\ Extracted
    /\ rule = 0
    /\ ext_arg = P_Translation \o P_Result \o <<" ", "v">>
    /\ extracted = <<"v">>


\* the character-level step is entered: no early return before line 119
CharStepEntered(p, r) ==
    LET pn == Strip(Lower(p))
        rn == Strip(Lower(r))
    IN  /\ p # <<>> /\ r # <<>>
        /\ pn # rn
        /\ Split(rn) # <<>>
        /\ FlLt(WordScore(pn, rn), WordCutoff)

\* C17: for every pair of strings the call ends with a number between 0 and 1,
\* never with an exception; when something raises inside the character-level
\* step the result is the word-overlap score alone.
C17_NeverRaises ==
    pc = "simf_done" =>
        /\ sim_score # Propagated
        /\ sim_score # NoScore
        /\ FlGeq(sim_score, Zero) /\ FlGeq(One, sim_score)
        /\ char_fault /\ CharStepEntered(prediction, reference) =>
             sim_score = WordScore(Strip(Lower(prediction)), Strip(Lower(reference)))

\* the fault costs the character-level credit: "ab" against "a b" scores 0
\* instead of 0.8
C17_Witness ==
    /\ pc = "simf_done"
    /\ char_fault
    /\ CharStepEntered(prediction, reference)
    /\ sim_score = Zero
    /\ calculate_similarity_score(prediction, reference) = Fl(4, 5)


\* the items the claim names: not a mapping, a non-numeric score, a non-string
\* prediction that reaches the string operations
NotProcessable(item) ==
    \/ item = PyNone
    \/ item = R_score_str
    \/ item = R_prediction_int

\* what the items before the first failing one add up to
RECURSIVE SumBefore(_, _)
SumBefore(items, k) ==
    IF k = 0 THEN Zero
    ELSE FlAdd(SumBefore(items, k - 1), FinalScore(items[k]))

\* C18: the aggregator always ends with a value, and when an item of the list
\* makes the loop fail the value is 0.0 whatever the items before it added up
\* to; a list without such an item is not affected.
C18_FailureGivesZero ==
    pc = "bleu_done" /\ bleu_arg.type = "list" =>
        LET items == bleu_arg.items
            fails == \E k \in DOMAIN items : NotProcessable(items[k])
        IN  /\ bleu_ret.src # Propagated /\ bleu_ret.src # NoScore
            /\ bleu_ret.root # Propagated /\ bleu_ret.root # NoScore
            /\ fails => bleu_ret.src = Zero
            /\ ~fails /\ items # <<>> =>
                 bleu_ret.src = FlMul(FlDivInt(SumBefore(items, Len(items)), Len(items)),
                                      Fl(100, 1))

\* two good records, then a failing one: the partial sum 2.0 is discarded
C18_Witness ==
    /\ pc = "bleu_done"
    /\ bleu_arg.type = "list"
    /\ Len(bleu_arg.items) = 3
    /\ bleu_arg.items[1] = [score |-> 1]
    /\ bleu_arg.items[2] = [score |-> 1]
    /\ bleu_arg.items[3] = R_score_str
    /\ bleu_ret.src = Zero


\* the calls outside the per-case loop that raised, and the calls made for cases
SetupFailures == {n \in DOMAIN calls : calls[n].case = -1 /\ calls[n].raised}
CaseCalls == {n \in DOMAIN calls : calls[n].case >= 0}

\* C19: an exception from creating the agent or loading the evaluator leaves
\* evaluate_translations as that same exception, with no result list and no
\* case invoked; an exception inside a case never does, it becomes the error
\* record of that case.
C19_SetupFailureEscapes ==
    /\ eval_outcome.status = "raised" <=> SetupFailures # {}
    /\ \A n \in SetupFailures :
         /\ n = Len(calls)
         /\ calls[n].fn \in {"create_langchain_agent", "load_evaluator"}
         /\ eval_outcome.error = calls[n].result
         /\ evaluation_results = <<>>
         /\ CaseCalls = {}
         /\ pc = "exited" /\ exit_code = 1
    /\ \A n \in CaseCalls :
         calls[n].raised =>
             /\ eval_outcome.status # "raised"
             /\ calls[n].case < Len(evaluation_results) =>
                  "error" \in DOMAIN evaluation_results[calls[n].case + 1]

\* the evaluator could not be loaded after the agent had been created
C19_Witness ==
    /\ eval_outcome = [status |-> "raised", error |-> "Test exception"]
    /\ Len(calls) = 2
    /\ calls[2].fn = "load_evaluator"
    /\ calls[2].raised
    /\ Len(dataset) > 0

\* the [SUCCESS] / [FAIL] lines printed so far
GateLines == {n \in DOMAIN stdout : stdout[n].tag \in {"SUCCESS", "FAIL"}}

\* C20 as claimed: every run that has exited has printed a [SUCCESS] or [FAIL]
\* line with the aggregate and the threshold.
C20_EveryRunPrintsGateLine ==
    pc = "exited" =>
        \E n \in GateLines : stdout[n].threshold = BLEU_THRESHOLD

\* C20 as amended: a run prints the gate line exactly when the credential is
\* present and evaluate_translations returned; it is then the last line before
\* the exit, it is the only such line, it carries the aggregate of the returned
\* results and the threshold, and it says [SUCCESS] iff the status is 0. A run
\* that aborts (no credential, or an escaping exception) ends with an [ERROR]
\* line instead.
C20_GateLineWhenGateReached ==
    /\ GateLines # {} => pc = "exited"
    /\ pc = "exited" =>
         /\ GateLines # {} <=> (KeyPresent /\ Returned)
         /\ GateLines # {} =>
              /\ GateLines = {Len(stdout)}
              /\ stdout[Len(stdout)].score = bleu_score
              /\ bleu_score = (IF variant = "src"
                               THEN calculate_bleu_score(PyList(evaluation_results))
                               ELSE calculate_bleu_score_root(PyList(evaluation_results)))
              /\ stdout[Len(stdout)].threshold = BLEU_THRESHOLD
              /\ stdout[Len(stdout)].tag = "SUCCESS" <=> exit_code = 0
         /\ GateLines = {} => stdout[Len(stdout)].tag = "ERROR" /\ exit_code = 1

\* a failed gate is announced with its score
C20_Witness ==
    /\ pc = "exited"
    /\ exit_code = 1
    /\ Len(stdout) = 2
    /\ stdout[2].tag = "FAIL"
    /\ stdout[2].score = Zero
    /\ Len(evaluation_results) = 2


\* C23: the agent is invoked exactly once for each case the loop has gone
\* through and for no other, with that case's input, in dataset order; the
\* calls of a case all precede those of the next case and come with its record;
\* a case whose invocation raised is not invoked again and the loop goes on to
\* the next case, so a returned run has invoked every case.
C23_OneInvocationPerCase ==
    /\ \A k \in 0..(Len(dataset) - 1) :
         /\ Cardinality(CallsOf(k, "invoke")) = (IF k < i THEN 1 ELSE 0)
         /\ \A n \in CallsOf(k, "invoke") : calls[n].arg = dataset[k + 1].input
    /\ \A a, b \in DOMAIN calls : a < b => calls[a].case <= calls[b].case
    /\ \A n \in CaseCalls : calls[n].case < Len(evaluation_results)
    /\ Len(evaluation_results) = i
    /\ \A n \in CaseCalls : calls[n].raised => pc \in {"loop", "gate", "exited"}
    /\ Returned => i = Len(dataset)

\* the first invocation raised and the second case was invoked all the same
C23_Witness ==
    /\ Returned
    /\ Len(dataset) = 2
    /\ \E a \in CallsOf(0, "invoke") : calls[a].raised
    /\ \E b \in CallsOf(1, "invoke") : ~calls[b].raised
    /\ "error" \notin DOMAIN evaluation_results[2]


SimDone == pc = "sim_done"

Normalized(s) == Strip(Lower(s))

\* the whitespace-separated tokens of s: its maximal runs of non-space characters
TokensOf(s) ==
    LET starts == {a \in 1..Len(s) : ~IsSpace(s[a]) /\ (a = 1 \/ IsSpace(s[a - 1]))}
        EndOf(a) == CHOOSE b \in a..Len(s) :
                        /\ \A n \in a..b : ~IsSpace(s[n])
                        /\ b = Len(s) \/ IsSpace(s[b + 1])
    IN  {SubSeq(s, a, EndOf(a)) : a \in starts}

AlnumOf(s) == {s[n] : n \in {k \in 1..Len(s) : IsAlnum(s[k])}}

\* 0.8 * (n / d) for the sizes n <= d of small sets
WeightedQuotients ==
    [n \in 0..10 |-> [d \in 1..10 |-> FlMul(Fl(4, 5), Fl(n, d))]]

\* C24: for non-empty arguments with different normalized forms the result is
\* 0 when the reference has no token; the word overlap w when w >= 0.7, even
\* where 0.8 * c is larger; below that max(w, 0.8 * c) with the character
\* overlap c when the reference has an alphanumeric character, and w when it
\* has none.
C24_ReferenceFormula ==
    LET pn == Normalized(prediction)
        rn == Normalized(reference)
    IN  SimDone /\ prediction # <<>> /\ reference # <<>> /\ pn # rn =>
        LET pt == TokensOf(pn)
            rt == TokensOf(rn)
            pa == AlnumOf(pn)
            ra == AlnumOf(rn)
            wn == Cardinality(pt \cap rt)
            wd == Cardinality(rt)
            cn == Cardinality(pa \cap ra)
            cd == Cardinality(ra)
        IN  IF wd = 0 THEN sim_score = Zero
            ELSE IF FlGeq(Fl(wn, wd), Fl(7, 10)) THEN sim_score = Fl(wn, wd)
            ELSE IF cd = 0 THEN sim_score = Fl(wn, wd)
            ELSE LET weighted == WeightedQuotients[cn][cd]
                 IN  IF FlGeq(Fl(wn, wd), weighted) THEN sim_score = Fl(wn, wd)
                     ELSE sim_score = weighted

\* three of the four reference tokens and every character in common: the
\* result is the word overlap 0.75, not the larger 0.8 * 1.0
C24_Witness ==
    /\ SimDone
    /\ Cardinality(TokensOf(Normalized(reference))) = 4
    /\ Cardinality(TokensOf(Normalized(prediction))
                      \cap TokensOf(Normalized(reference))) = 3
    /\ AlnumOf(Normalized(reference)) = {"a", "b"}
    /\ AlnumOf(Normalized(prediction)) = {"a", "b"}
    /\ sim_score = Fl(3, 4)
    /\ FlLt(sim_score, WeightedQuotients[2][2])


\* C27: whenever the reference has a token and each of its tokens is a token of
\* the prediction (both normalized), the score is exactly 1.0 and so is the
\* final score of such a record with exact score 0, whatever the order, the
\* repetitions and the extra tokens of the prediction.
C27_AllReferenceTokensGiveOne ==
    SimDone =>
        LET pt == TokensOf(Normalized(prediction))
            rt == TokensOf(Normalized(reference))
        IN  rt # {} /\ rt \subseteq pt =>
                /\ sim_score = One
                /\ FinalScore([prediction |-> prediction, reference |-> reference,
                               score |-> 0]) = One

\* score 1.0 for a prediction that is not the reference: it repeats a token or
\* has one more
C27_Witness ==
    /\ SimDone
    /\ sim_score = One
    /\ Normalized(prediction) # Normalized(reference)
    /\ Len(Split(Normalized(prediction))) > Len(Split(Normalized(reference)))
    /\ TokensOf(Normalized(reference)) # {}

BleuDone == pc = "bleu_done"

ScoreIsZeroOrOne(item) == "score" \in DOMAIN item /\ item.score \in {0, 1}

\* the record's similarity is 0 or its exact score is 1
NoPartialCredit(item) ==
    item.score = 0 =>
        calculate_similarity_score(Get(item, "prediction", <<>>),
                                   Get(item, "reference", <<>>)) = Zero

\* C25 as claimed: on every list of records with scores 0 or 1 the similarity
\* aggregate is at least the exact-match share, equal to it when no record with
\* score 0 has a similarity above 0, and passes the gate whenever the share does.
C25_SimilarityRefinesExact ==
    BleuDone /\ bleu_arg.type = "list"
             /\ (\A k \in DOMAIN bleu_arg.items : ScoreIsZeroOrOne(bleu_arg.items[k])) =>
        /\ FlGeq(bleu_ret.src, bleu_ret.root)
        /\ (\A k \in DOMAIN bleu_arg.items : NoPartialCredit(bleu_arg.items[k]))
             => bleu_ret.src = bleu_ret.root
        /\ GatePasses(bleu_ret.root) => GatePasses(bleu_ret.src)

StringFields(item) == "prediction_int" \notin DOMAIN item

\* a non-zero integer prediction next to a non-empty reference
IntegerWithReference(item) ==
    /\ "prediction_int" \in DOMAIN item
    /\ item.prediction_int # 0
    /\ "reference" \in DOMAIN item
    /\ item.reference # <<>>

\* the share of records with score == 1, as a percentage
ExactShare(items) ==
    FlMul(Fl(Cardinality({k \in DOMAIN items : items[k].score = 1}), Len(items)),
          Fl(100, 1))

\* C25 as amended: the same, for lists of records whose prediction and
\* reference, where present, are strings. A record with a non-zero integer
\* prediction and a non-empty reference makes the similarity aggregate 0 for
\* the whole list while the exact-match share still counts every score; an
\* integer prediction without a reference does not, and the similarity
\* aggregate stays at least the exact-match share.
C25_RefinesOnStringRecords ==
    BleuDone /\ bleu_arg.type = "list"
             /\ (\A k \in DOMAIN bleu_arg.items : ScoreIsZeroOrOne(bleu_arg.items[k])) =>
        LET items == bleu_arg.items
        IN  /\ (\A k \in DOMAIN items : StringFields(items[k])) =>
                  /\ FlGeq(bleu_ret.src, bleu_ret.root)
                  /\ (\A k \in DOMAIN items : NoPartialCredit(items[k]))
                       => bleu_ret.src = bleu_ret.root
                  /\ GatePasses(bleu_ret.root) => GatePasses(bleu_ret.src)
            /\ (\E k \in DOMAIN items : IntegerWithReference(items[k])) =>
                  /\ bleu_ret.src = Zero
                  /\ bleu_ret.root = ExactShare(items)
            /\ (\A k \in DOMAIN items : ~IntegerWithReference(items[k])) =>
                  FlGeq(bleu_ret.src, bleu_ret.root)

\* the similarity aggregate passes the gate where the exact-match share fails
C25_Witness ==
    /\ BleuDone
    /\ bleu_arg.type = "list"
    /\ \A k \in DOMAIN bleu_arg.items :
         ScoreIsZeroOrOne(bleu_arg.items[k]) /\ StringFields(bleu_arg.items[k])
    /\ GatePasses(bleu_ret.src)
    /\ ~GatePasses(bleu_ret.root)
    /\ Len(bleu_arg.items) = 2


ToolCalled == agent_op.fn = "translate_tool"

\* the positions of the delimiter in the argument of the last tool call
Pipes == {k \in DOMAIN agent_op.arg : agent_op.arg[k] = "|"}

\* the calls of the chat model's invoke made by the last operation
Invokes == {n \in DOMAIN agent_op.made : agent_op.made[n].fn = "invoke"}

L_ErrorInvalidFormat == <<"E", "r", "r", "o", "r", ":", " ", "I", "n", "v", "a", "l", "i", "d", " ", "f", "o", "r", "m", "a", "t">>

\* C21: translate_tool given an input without "|" returns (does not raise) a
\* string beginning "Error: Invalid format" and makes no call at all: neither
\* the glossary nor the chat model is touched; an input with one or more "|"
\* is split at the first "|" only and both sides are trimmed, so every later
\* "|" stays in the source text that is looked up and sent to the model.
C21_FormatErrorAndFirstPipeSplit ==
    ToolCalled =>
        /\ Pipes = {} =>
            /\ ~agent_op.raised
            /\ agent_op.ret.type = "str"
            /\ StartsWith(agent_op.ret.value, L_ErrorInvalidFormat)
            /\ agent_op.made = <<>>
        /\ Pipes # {} =>
            LET first == Min(Pipes)
                language == Strip(SubSeq(agent_op.arg, 1, first - 1))
                text == Strip(SubSeq(agent_op.arg, first + 1, Len(agent_op.arg)))
            IN  /\ agent_op.made # <<>>
                /\ agent_op.made[1].fn = "_apply_glossary"
                /\ agent_op.made[1].lang = language
                /\ agent_op.made[1].text = text
                /\ Cardinality({k \in DOMAIN text : text[k] = "|"})
                        = Cardinality(Pipes) - 1
                /\ \A n \in Invokes : agent_op.made[n].human = text
                /\ ~(agent_op.ret.type = "str"
                        /\ StartsWith(agent_op.ret.value, L_ErrorInvalidFormat))

C21_Witness ==
    /\ ToolCalled
    /\ api_key = "sk-test"
    /\ gloss = FallbackGloss
    /\ agent_op.arg = <<"S", "p", "a", "n", "i", "s", "h", " ", "c", "l", "o", "u", "d", " ", "p", "a", "y", "r", "o", "l", "l">>
    /\ agent_op.ret = [type |-> "str", value |-> E_InvalidFormat \o <<"S", "p", "a", "n", "i", "s", "h", " ", "c", "l", "o", "u", "d", " ", "p", "a", "y", "r", "o", "l", "l">>]
    /\ agent_op.made = <<>>


FactoryCalled == agent_op.fn = "create_langchain_agent"

\* the calls of collaborator fn made by the last operation
MadeTo(fn) == {n \in DOMAIN agent_op.made : agent_op.made[n].fn = fn}

L_KeyNotFound == <<"O", "P", "E", "N", "A", "I", "_", "A", "P", "I", "_", "K", "E", "Y", " ", "n", "o", "t", " ", "f", "o", "u", "n", "d">>

\* C22: create_langchain_agent raises ValueError("OPENAI_API_KEY not found
\* ...") when the key is absent from the environment and when it is the empty
\* string, in both cases before the LLM wrapper is constructed and before
\* create_react_agent is called; with a non-empty key the LLM is constructed
\* exactly once, with that key, create_react_agent is called exactly once and
\* the factory's outcome is that call's outcome (its result is returned, its
\* exception is not caught).
C22_KeyCheckedBeforeConstruction ==
    FactoryCalled =>
        /\ ~KeyPresent =>
            /\ agent_op.raised
            /\ agent_op.ret.type = "ValueError"
            /\ StartsWith(agent_op.ret.message, L_KeyNotFound)
            /\ MadeTo("OpenAI") = {}
            /\ MadeTo("create_react_agent") = {}
        /\ KeyPresent =>
            /\ agent_op.ret.type # "ValueError"
            /\ MadeTo("OpenAI") = {1}
            /\ agent_op.made[1].openai_api_key = api_key
            /\ ~agent_op.made[1].raised =>
                /\ MadeTo("create_react_agent") = {2}
                /\ Len(agent_op.made) = 2
                /\ agent_op.raised = agent_op.made[2].raised
                /\ agent_op.ret = agent_op.made[2].ret
            /\ agent_op.made[1].raised =>
                /\ agent_op.raised
                /\ MadeTo("create_react_agent") = {}

C22_Witness ==
    /\ FactoryCalled
    /\ api_key = ""
    /\ agent_op.raised
    /\ agent_op.ret = [type |-> "ValueError", message |-> E_KeyNotFound]
    /\ agent_op.made = <<>>


\* the language labels of DATASET and the glossary key of each
DatasetLabels == {<<"S", "p", "a", "n", "i", "s", "h">>, <<"G", "e", "r", "m", "a", "n">>}

GlossKey(label) == IF label = <<"S", "p", "a", "n", "i", "s", "h">> THEN <<"e", "s">> ELSE <<"d", "e">>

\* the glossary pairs of a dataset language: the entries of GLOSS that hold a
\* term under the language's key, in GLOSS order, the others omitted
TermsFor(label) == GlossTerms(gloss, GlossKey(label))

\* C26: the translation tool is glossary-aware for the languages of the
\* evaluation dataset: called with the label "Spanish" or "German",
\* _apply_glossary returns the source-term/target-term pairs that the
\* glossary holds under "es" / "de" (entries without a term for the language
\* omitted), and the system prompt sent to the LLM lists them.
C26_GlossaryAwareForDatasetLabels ==
    /\ (agent_op.fn = "_apply_glossary" /\ agent_op.arg \in DatasetLabels) =>
            agent_op.ret.items = TermsFor(agent_op.arg)
    /\ (ToolCalled /\ agent_op.made # <<>>
            /\ agent_op.made[1].lang \in DatasetLabels) =>
            LET label == agent_op.made[1].lang
            IN  /\ agent_op.made[1].result = TermsFor(label)
                /\ \A n \in Invokes :
                    agent_op.made[n].system
                        = system_prompt(variant, label, TermsFor(label))

====
